---- MODULE Spec2Model ----
(***************************************************************************)
(* Model of md-viewer's Markdown-to-Layout compiler (src/src/markdown.rs). *)
(* The compiler state (MarkdownBuffer with its LineWriter) is driven by a  *)
(* stream of pulldown-cmark events; one action per event kind applies the  *)
(* whole handler of that event.                                            *)
(***************************************************************************)
EXTENDS Integers, Sequences, FiniteSets, TLC

(***************************************************************************)
(* Bounds of the exploration.                                              *)
(***************************************************************************)
\* number of non-End events of one stream
MaxEvents == 4
\* number of non-End events of one stream of lists
MaxListEvents == 10
\* number of non-End events of one stream of tables
MaxTableEvents == 10
\* clamp_column_widths on its own: the most columns, the widest natural
\* column and the widest table explored
MaxColumns == 3
MaxNaturalWidth == 8
MaxClampWidth == 30
\* the row mapper on its own: the widest line, the longest Document and the
\* widest viewport explored
MaxLineWidth == 4
MaxDocLines == 3
MaxViewportWidth == 3
MaxStrayEvents == 3
\* keys handled in a behaviour of SpecScroll
MaxScrollKeys == 3

(***************************************************************************)
(* Program constants.                                                      *)
(***************************************************************************)
CODE_BLOCK_FG == "Rgb(225,228,235)"
CODE_BLOCK_BG == "Rgb(12,16,26)"
MIN_COLUMN_WIDTH == 3
DEFAULT_MAX_TABLE_WIDTH == 80
U16_MAX == 65535
DEFAULT_VIEWPORT_WIDTH == 80

(***************************************************************************)
(* Option<T>, strings (sequences of one-character strings) and styles.     *)
(***************************************************************************)
NoneNat == [some |-> FALSE, v |-> 0]
SomeNat(n) == [some |-> TRUE, v |-> n]
NoneStr == [some |-> FALSE, v |-> <<>>]
SomeStr(s) == [some |-> TRUE, v |-> s]

RECURSIVE repeat(_, _)
repeat(s, n) == IF n <= 0 THEN <<>> ELSE s \o repeat(s, n - 1)

contains(s, ch) == \E i \in 1..Len(s) : s[i] = ch

is_whitespace(ch) == ch \in {" ", "\n", "\t"}

RECURSIVE trim_start(_)
trim_start(s) ==
    IF s # <<>> /\ is_whitespace(Head(s)) THEN trim_start(Tail(s)) ELSE s

RECURSIVE trim_end(_)
trim_end(s) ==
    IF s # <<>> /\ is_whitespace(s[Len(s)])
    THEN trim_end(SubSeq(s, 1, Len(s) - 1))
    ELSE s

trim(s) == trim_end(trim_start(s))

Digit(n) == <<"0", "1", "2", "3", "4", "5", "6", "7", "8", "9">>[n + 1]

RECURSIVE to_string(_)
to_string(n) ==
    IF n < 10 THEN <<Digit(n)>> ELSE to_string(n \div 10) \o <<Digit(n % 10)>>

Style_default == [fg |-> "None", bg |-> "None", mods |-> {}]
Style_fg(style, color) == [style EXCEPT !.fg = color]
Style_bg(style, color) == [style EXCEPT !.bg = color]
add_modifier(style, m) == [style EXCEPT !.mods = @ \cup {m}]

Span_styled(content, style) == [content |-> content, style |-> style]

Line_default == <<>>

(***************************************************************************)
(* Events of the markdown event stream.                                    *)
(***************************************************************************)
Tag(t, n, opt, s) == [t |-> t, n |-> n, opt |-> opt, s |-> s]
NoTag == Tag("None", 0, FALSE, <<>>)

Paragraph == Tag("Paragraph", 0, FALSE, <<>>)
Heading(level) == Tag("Heading", level, FALSE, <<>>)
BlockQuote == Tag("BlockQuote", 0, FALSE, <<>>)
\* List(None) and List(Some(start))
ListNone == Tag("List", 0, FALSE, <<>>)
ListSome(start) == Tag("List", start, TRUE, <<>>)
Item == Tag("Item", 0, FALSE, <<>>)
\* CodeBlock(Indented) and CodeBlock(Fenced(info))
CodeBlockIndented == Tag("CodeBlock", 0, FALSE, <<>>)
CodeBlockFenced(info) == Tag("CodeBlock", 0, TRUE, info)
Emphasis == Tag("Emphasis", 0, FALSE, <<>>)
Strong == Tag("Strong", 0, FALSE, <<>>)
Strikethrough == Tag("Strikethrough", 0, FALSE, <<>>)
Link == Tag("Link", 0, FALSE, <<>>)
\* Image(_, dest, title): s is the title, the destination is ImageDest
Image(title) == Tag("Image", 0, FALSE, title)
FootnoteDefinition(name) == Tag("FootnoteDefinition", 0, FALSE, name)

\* Table(alignments): s is the sequence of the column alignments
Table(alignments) == Tag("Table", 0, FALSE, alignments)
TableHead == Tag("TableHead", 0, FALSE, <<>>)
TableRow == Tag("TableRow", 0, FALSE, <<>>)
TableCell == Tag("TableCell", 0, FALSE, <<>>)

ImageDest == <<"u">>

Event(k, tag, text, done) == [k |-> k, tag |-> tag, text |-> text, done |-> done]
NoEvent == Event("None", NoTag, <<>>, FALSE)

(***************************************************************************)
(* State of the compiler: the fields of MarkdownBuffer and of LineWriter.  *)
(***************************************************************************)
VARIABLES
    lines,            \* LineWriter.lines
    current,          \* LineWriter.current
    line_start,       \* LineWriter.line_start
    last_blank,       \* LineWriter.last_blank
    pending_heading,  \* LineWriter.pending_heading
    heading_overlays, \* LineWriter.heading_overlays
    style_stack,      \* MarkdownBuffer.style_stack
    list_stack,       \* MarkdownBuffer.list_stack
    blockquote_depth, \* MarkdownBuffer.blockquote_depth
    table,            \* MarkdownBuffer.table
    code_blocks,      \* MarkdownBuffer.code_blocks
    rule_lines,       \* MarkdownBuffer.rule_lines
    code_block,       \* MarkdownBuffer.code_block
    options,          \* MarkdownBuffer.options
    gap_lines,        \* indices of the lines appended by the separator steps
    open,             \* the parser's stack of open tags
    headings,         \* the heading blocks the parser has emitted
    nev,              \* number of non-End events emitted
    ev,               \* the event handled last
    pc,               \* "events" while the stream runs, "done" after finalize
    frame,            \* the locals of a function that runs on its own
    app               \* the viewer: the fields of App

bufVars == <<lines, current, line_start, last_blank, pending_heading,
             heading_overlays, style_stack, list_stack, blockquote_depth,
             table, code_blocks, rule_lines, code_block, options, gap_lines>>
compVars == <<bufVars, open, headings, nev, ev, pc>>
vars == <<compVars, frame, app>>

\* the compiler state as one value, threaded through the handlers
Buf == [lines |-> lines, current |-> current, line_start |-> line_start,
        last_blank |-> last_blank, pending_heading |-> pending_heading,
        heading_overlays |-> heading_overlays, style_stack |-> style_stack,
        list_stack |-> list_stack, blockquote_depth |-> blockquote_depth,
        table |-> table, code_blocks |-> code_blocks, rule_lines |-> rule_lines,
        code_block |-> code_block, options |-> options, gap_lines |-> gap_lines]

SetBuf(b) ==
    /\ lines' = b.lines
    /\ current' = b.current
    /\ line_start' = b.line_start
    /\ last_blank' = b.last_blank
    /\ pending_heading' = b.pending_heading
    /\ heading_overlays' = b.heading_overlays
    /\ style_stack' = b.style_stack
    /\ list_stack' = b.list_stack
    /\ blockquote_depth' = b.blockquote_depth
    /\ table' = b.table
    /\ code_blocks' = b.code_blocks
    /\ rule_lines' = b.rule_lines
    /\ code_block' = b.code_block
    /\ options' = b.options
    /\ gap_lines' = b.gap_lines

(***************************************************************************)
(* LineWriter.                                                             *)
(***************************************************************************)
queue_heading(b, level) == [b EXCEPT !.pending_heading = SomeNat(level)]

push_span(b, span, mark_content) ==
    [b EXCEPT !.current = Append(@, span),
              !.last_blank = IF mark_content THEN FALSE ELSE @,
              !.line_start = FALSE]

\* flush_line putting the overlay of a heading in front of the earlier ones
flush_line_prepends_overlay(b, allow_empty) ==
    IF b.current = <<>>
    THEN IF allow_empty
         THEN [b EXCEPT !.lines = Append(@, Line_default),
                        !.last_blank = TRUE,
                        !.line_start = TRUE]
         ELSE [b EXCEPT !.line_start = TRUE]
    ELSE LET pushed == Append(b.lines, b.current)
             line_index == IF Len(pushed) >= 1 THEN Len(pushed) - 1 ELSE 0
         IN [b EXCEPT !.lines = pushed,
                      !.current = <<>>,
                      !.last_blank = FALSE,
                      !.pending_heading = NoneNat,
                      !.heading_overlays =
                          IF b.pending_heading.some
                          THEN <<[line |-> line_index,
                                  level |-> b.pending_heading.v]>> \o @
                          ELSE @,
                      !.line_start = TRUE]

\* flush_line taking the index of the line after the one it pushes
flush_line_off_by_one(b, allow_empty) ==
    IF b.current = <<>>
    THEN IF allow_empty
         THEN [b EXCEPT !.lines = Append(@, Line_default),
                        !.last_blank = TRUE,
                        !.line_start = TRUE]
         ELSE [b EXCEPT !.line_start = TRUE]
    ELSE LET pushed == Append(b.lines, b.current)
         IN [b EXCEPT !.lines = pushed,
                      !.current = <<>>,
                      !.last_blank = FALSE,
                      !.pending_heading = NoneNat,
                      !.heading_overlays =
                          IF b.pending_heading.some
                          THEN Append(@, [line |-> Len(pushed),
                                          level |-> b.pending_heading.v])
                          ELSE @,
                      !.line_start = TRUE]

\* flush_line reading pending_heading without taking it
flush_line_keeps_pending(b, allow_empty) ==
    IF b.current = <<>>
    THEN IF allow_empty
         THEN [b EXCEPT !.lines = Append(@, Line_default),
                        !.last_blank = TRUE,
                        !.line_start = TRUE]
         ELSE [b EXCEPT !.line_start = TRUE]
    ELSE LET pushed == Append(b.lines, b.current)
             line_index == IF Len(pushed) >= 1 THEN Len(pushed) - 1 ELSE 0
         IN [b EXCEPT !.lines = pushed,
                      !.current = <<>>,
                      !.last_blank = FALSE,
                      !.heading_overlays =
                          IF b.pending_heading.some
                          THEN Append(@, [line |-> line_index,
                                          level |-> b.pending_heading.v])
                          ELSE @,
                      !.line_start = TRUE]

flush_line(b, allow_empty) ==
    IF b.current = <<>>
    THEN IF allow_empty
         THEN [b EXCEPT !.lines = Append(@, Line_default),
                        !.last_blank = TRUE,
                        !.line_start = TRUE]
         ELSE [b EXCEPT !.line_start = TRUE]
    ELSE LET pushed == Append(b.lines, b.current)
             line_index == IF Len(pushed) >= 1 THEN Len(pushed) - 1 ELSE 0
         IN [b EXCEPT !.lines = pushed,
                      !.current = <<>>,
                      !.last_blank = FALSE,
                      !.pending_heading = NoneNat,
                      !.heading_overlays =
                          IF b.pending_heading.some
                          THEN Append(@, [line |-> line_index,
                                          level |-> b.pending_heading.v])
                          ELSE @,
                      !.line_start = TRUE]

ensure_block_gap(b) ==
    IF b.lines # <<>> /\ ~b.last_blank
    THEN [b EXCEPT !.lines = Append(@, Line_default),
                   !.gap_lines = @ \cup {Len(b.lines)},
                   !.last_blank = TRUE,
                   !.line_start = TRUE]
    ELSE [b EXCEPT !.line_start = TRUE]

push_blank_line(b) ==
    IF ~b.last_blank
    THEN [b EXCEPT !.lines = Append(@, Line_default),
                   !.gap_lines = @ \cup {Len(b.lines)},
                   !.last_blank = TRUE,
                   !.line_start = TRUE]
    ELSE [b EXCEPT !.line_start = TRUE]

\* the index it returns is Len(b.lines), the length before the push
push_manual_line(b, line) ==
    [b EXCEPT !.lines = Append(@, line),
              !.last_blank = (line = <<>>),
              !.line_start = TRUE]

mark_last_non_blank(b) == [b EXCEPT !.last_blank = FALSE]

extend_lines(b, new_lines) ==
    IF new_lines = <<>>
    THEN b
    ELSE [b EXCEPT !.lines = @ \o new_lines,
                   !.last_blank = (new_lines[Len(new_lines)] = <<>>),
                   !.line_start = TRUE]

\* finalize returning the lines without the pending spans
LineWriter_finalize_drops_pending(b) == [b EXCEPT !.current = <<>>]

LineWriter_finalize(b) ==
    IF b.current # <<>>
    THEN [b EXCEPT !.lines = Append(@, b.current), !.current = <<>>]
    ELSE b

(***************************************************************************)
(* CodeBlockState.                                                         *)
(***************************************************************************)
is_active(cb) == cb.start_line.some

CodeBlockState_start(start_line, language) ==
    [start_line |-> SomeNat(start_line), language |-> language]

\* the character U+0060
Backtick == "U+0060"

(***************************************************************************)
(* TableBuilder and the table grid layout.                                 *)
(***************************************************************************)
Max(a, b) == IF a >= b THEN a ELSE b

\* display width of one character: the model's alphabet has one double-width
\* glyph, U+1F600
char_width(ch) == IF ch = "U+1F600" THEN 2 ELSE 1

\* UnicodeWidthStr::width
RECURSIVE str_width(_)
str_width(s) == IF s = <<>> THEN 0 ELSE char_width(Head(s)) + str_width(Tail(s))

display_width(value) == Max(str_width(value), 1)

\* str::split(ch)
RECURSIVE split(_, _)
split(s, ch) ==
    IF ~contains(s, ch)
    THEN <<s>>
    ELSE LET i == CHOOSE j \in 1..Len(s) :
                     s[j] = ch /\ \A p \in 1..(j - 1) : s[p] # ch
         IN <<SubSeq(s, 1, i - 1)>> \o split(SubSeq(s, i + 1, Len(s)), ch)

Cell_from_raw(raw) ==
    LET trimmed == trim(raw)
        segments == split(trimmed, "\n")
    IN IF trimmed = <<>>
       THEN [lines |-> <<<<>>>>]
       ELSE [lines |-> [i \in 1..Len(segments) |-> trim(segments[i])]]

RECURSIVE max_of(_, _)
max_of(f, i) == IF i > Len(f) THEN 0 ELSE Max(f[i], max_of(f, i + 1))

Cell_width(cell) ==
    max_of([i \in 1..Len(cell.lines) |-> display_width(cell.lines[i])], 1)

NoRow == [some |-> FALSE, v |-> <<>>]

TableBuilder_new(alignments, max_width) ==
    [alignments |-> alignments, header |-> NoRow, rows |-> <<>>,
     current_row |-> <<>>, current_cell |-> <<>>,
     in_head |-> FALSE, in_cell |-> FALSE, max_width |-> max_width]

NoTable == [some |-> FALSE, v |-> TableBuilder_new(<<>>, 0)]

end_cell(t) ==
    IF ~t.in_cell
    THEN t
    ELSE [t EXCEPT !.current_row = Append(@, Cell_from_raw(t.current_cell)),
                   !.current_cell = <<>>,
                   !.in_cell = FALSE]

\* if self.in_cell { self.end_cell() }
close_cell(t) == IF t.in_cell THEN end_cell(t) ELSE t

commit_header_row(t) ==
    IF t.current_row = <<>>
    THEN t
    ELSE [t EXCEPT !.header = IF @.some THEN @ ELSE [some |-> TRUE, v |-> t.current_row],
                   !.current_row = <<>>]

start_head(t) == [close_cell(t) EXCEPT !.current_row = <<>>, !.in_head = TRUE]

end_head(t) ==
    LET t1 == close_cell(t)
    IN [(IF t1.in_head THEN commit_header_row(t1) ELSE t1) EXCEPT !.in_head = FALSE]

start_row(t) == [t EXCEPT !.current_row = <<>>]

end_row(t) ==
    LET t1 == close_cell(t)
    IN IF t1.current_row = <<>>
       THEN t1
       ELSE IF t1.in_head
            THEN commit_header_row(t1)
            ELSE [t1 EXCEPT !.rows = Append(@, t1.current_row), !.current_row = <<>>]

start_cell(t) == [close_cell(t) EXCEPT !.current_cell = <<>>, !.in_cell = TRUE]

TableBuilder_push_text(t, text) ==
    IF ~t.in_cell THEN t ELSE [t EXCEPT !.current_cell = @ \o text]

TableBuilder_push_code(t, text) ==
    IF ~t.in_cell
    THEN t
    ELSE [t EXCEPT !.current_cell = @ \o <<Backtick>> \o text \o <<Backtick>>]

TableBuilder_push_soft_break(t) ==
    IF ~t.in_cell
    THEN t
    ELSE IF t.current_cell # <<>> /\ t.current_cell[Len(t.current_cell)] = " "
         THEN t
         ELSE [t EXCEPT !.current_cell = Append(@, " ")]

TableBuilder_push_hard_break(t) ==
    IF ~t.in_cell THEN t ELSE [t EXCEPT !.current_cell = Append(@, "\n")]

\* to_ascii_lowercase, on the letters of the model's alphabet
ascii_lowercase(ch) ==
    CASE ch = "B" -> "b"
      [] ch = "R" -> "r"
      [] OTHER -> ch

is_html_break(value) ==
    LET t == trim(value)
        lowered == [i \in 1..Len(t) |-> ascii_lowercase(t[i])]
    IN lowered \in {<<"<", "b", "r", ">">>, <<"<", "b", "r", "/", ">">>,
                    <<"<", "b", "r", " ", "/", ">">>}

TableBuilder_push_html(t, html) ==
    IF ~t.in_cell
    THEN t
    ELSE IF is_html_break(html)
         THEN [t EXCEPT !.current_cell = Append(@, "\n")]
         ELSE [t EXCEPT !.current_cell = @ \o html]

is_collecting(t) == t.in_cell

update_widths(widths, row) ==
    [i \in 1..Len(widths) |->
        IF i <= Len(row) THEN Max(widths[i], Cell_width(row[i])) ELSE widths[i]]

RECURSIVE sum_of(_, _)
sum_of(f, i) == IF i > Len(f) THEN 0 ELSE f[i] + sum_of(f, i + 1)

\* .filter(w > MIN_COLUMN_WIDTH).max_by_key(w): the index of the widest
\* column above the minimum, 0 for None
widest_index_first(widths) ==
    LET cands == {i \in 1..Len(widths) : widths[i] > MIN_COLUMN_WIDTH}
    IN IF cands = {}
       THEN 0
       ELSE CHOOSE i \in cands :
               \A j \in cands : widths[j] < widths[i] \/ (widths[j] = widths[i] /\ i <= j)

\* .filter(w > MIN_COLUMN_WIDTH).max_by_key(w): the index of the widest
\* column above the minimum, 0 for None; max_by_key returns the last of
\* several equally wide columns
widest_index(widths) ==
    LET cands == {i \in 1..Len(widths) : widths[i] > MIN_COLUMN_WIDTH}
    IN IF cands = {}
       THEN 0
       ELSE CHOOSE i \in cands :
               \A j \in cands : widths[j] < widths[i] \/ (widths[j] = widths[i] /\ j <= i)

\* widths[idx] -= 1
remove_unit(widths, idx) == [widths EXCEPT ![idx] = @ - 1]

\* widths[idx % widths.len()] += 1, idx counted from 0
add_unit(widths, idx) == [widths EXCEPT ![(idx % Len(widths)) + 1] = @ + 1]

\* the removal loop of adjust_widths
RECURSIVE adjust_widths_down(_, _, _)
adjust_widths_down(widths, total, target) ==
    IF total <= target \/ widest_index(widths) = 0
    THEN widths
    ELSE adjust_widths_down(remove_unit(widths, widest_index(widths)), total - 1, target)

\* the addition loop of adjust_widths
RECURSIVE adjust_widths_up(_, _, _, _)
adjust_widths_up(widths, total, target, idx) ==
    IF total >= target
    THEN widths
    ELSE adjust_widths_up(add_unit(widths, idx), total + 1, target, idx + 1)

adjust_widths(widths, target) ==
    IF widths = <<>>
    THEN widths
    ELSE LET total == sum_of(widths, 1)
         IN IF total > target
            THEN adjust_widths_down(widths, total, target)
            ELSE IF total < target
                 THEN adjust_widths_up(widths, total, target, 0)
                 ELSE widths

\* without .max(MIN_COLUMN_WIDTH)
scale_widths_unfloored(widths, max_content, total) ==
    [i \in 1..Len(widths) |-> (widths[i] * max_content) \div total]

\* the scaling loop of clamp_column_widths. The code computes
\* floor(width * (max_content / total)) in f64; for widths up to 20 and totals
\* up to 60 that is the integer quotient (the first difference is at width 22,
\* max_content 15, total 22).
scale_widths(widths, max_content, total) ==
    [i \in 1..Len(widths) |->
        Max((widths[i] * max_content) \div total, MIN_COLUMN_WIDTH)]

clamp_column_widths(widths, max_width) ==
    IF widths = <<>>
    THEN widths
    ELSE LET border_space == 3 * Len(widths) + 1
             fill == [i \in 1..Len(widths) |-> MIN_COLUMN_WIDTH]
             max_content == max_width - border_space
             min_total == MIN_COLUMN_WIDTH * Len(widths)
             total == sum_of(widths, 1)
         IN IF border_space >= max_width
            THEN fill
            ELSE IF max_content <= min_total
                 THEN fill
                 ELSE IF total <= max_content
                      THEN widths
                      ELSE adjust_widths(scale_widths(widths, max_content, total),
                                         max_content)

\* pads by the number of characters, not by the display width
pad_cell_by_chars(text, width, alignment) ==
    LET trimmed == trim(text)
        padding == width - Len(trimmed)
        left == padding \div 2
    IN IF trimmed = <<>>
       THEN repeat(<<" ">>, width)
       ELSE IF Len(trimmed) >= width
            THEN trimmed
            ELSE CASE alignment = "Right" -> repeat(<<" ">>, padding) \o trimmed
                   [] alignment = "Center" ->
                        repeat(<<" ">>, left) \o trimmed \o repeat(<<" ">>, padding - left)
                   [] OTHER -> trimmed \o repeat(<<" ">>, padding)

pad_cell(text, width, alignment) ==
    LET trimmed == trim(text)
        display == str_width(trimmed)
        padding == width - display
        left == padding \div 2
    IN IF trimmed = <<>>
       THEN repeat(<<" ">>, width)
       ELSE IF display >= width
            THEN trimmed
            ELSE CASE alignment = "Right" -> repeat(<<" ">>, padding) \o trimmed
                   [] alignment = "Center" ->
                        repeat(<<" ">>, left) \o trimmed \o repeat(<<" ">>, padding - left)
                   [] OTHER -> trimmed \o repeat(<<" ">>, padding)

\* textwrap find_words: the words of a line from character i on, each with
\* the number of spaces after it, appended to words
RECURSIVE find_words(_, _, _)
find_words(s, i, words) ==
    IF i > Len(s)
    THEN words
    ELSE IF s[i] = " "
    THEN IF words = <<>>
         THEN find_words(s, i + 1, <<[word |-> <<>>, ws |-> 1]>>)
         ELSE find_words(s, i + 1, [words EXCEPT ![Len(words)].ws = @ + 1])
    ELSE IF words # <<>> /\ words[Len(words)].ws = 0
         THEN find_words(s, i + 1, [words EXCEPT ![Len(words)].word = Append(@, s[i])])
         ELSE find_words(s, i + 1, Append(words, [word |-> <<s[i]>>, ws |-> 0]))

\* textwrap break_words: a word wider than the line is cut into pieces that fit
RECURSIVE break_word(_, _)
break_word(w, width) ==
    IF str_width(w.word) <= width
    THEN <<w>>
    ELSE LET n == CHOOSE m \in 1..(Len(w.word) - 1) :
                     /\ m = 1 \/ str_width(SubSeq(w.word, 1, m)) <= width
                     /\ str_width(SubSeq(w.word, 1, m + 1)) > width
         IN <<[word |-> SubSeq(w.word, 1, n), ws |-> 0]>>
            \o break_word([word |-> SubSeq(w.word, n + 1, Len(w.word)), ws |-> w.ws], width)

RECURSIVE break_words(_, _)
break_words(words, width) ==
    IF words = <<>>
    THEN <<>>
    ELSE break_word(Head(words), width) \o break_words(Tail(words), width)

\* textwrap wrap_first_fit: line is the text of the line being filled,
\* pending the spaces after its last word, used its width with those spaces
RECURSIVE wrap_first_fit(_, _, _, _, _)
wrap_first_fit(words, width, line, pending, used) ==
    IF words = <<>>
    THEN <<line>>
    ELSE IF used + str_width(Head(words).word) > width /\ line # <<>>
         THEN <<line>> \o wrap_first_fit(words, width, <<>>, 0, 0)
         ELSE wrap_first_fit(Tail(words), width,
                             line \o repeat(<<" ">>, pending) \o Head(words).word,
                             Head(words).ws,
                             used + str_width(Head(words).word) + Head(words).ws)

\* textwrap::wrap(text, Options::new(width).break_words(true))
wrap(text, width) ==
    wrap_first_fit(break_words(find_words(text, 1, <<>>), width), width, <<>>, 0, 0)

wrap_cell_text(text, width) ==
    IF width = 0
    THEN <<<<>>>>
    ELSE IF trim(text) = <<>>
         THEN <<<<>>>>
         ELSE wrap(trim(text), width)

\* the segments of one raw line of a cell, padded
pad_segments(wrapped, width, alignment) ==
    IF wrapped = <<>>
    THEN <<pad_cell(<<>>, width, alignment)>>
    ELSE [j \in 1..Len(wrapped) |-> pad_cell(wrapped[j], width, alignment)]

RECURSIVE render_raw_lines(_, _, _, _)
render_raw_lines(raw_lines, i, width, alignment) ==
    IF i > Len(raw_lines)
    THEN <<>>
    ELSE pad_segments(wrap_cell_text(raw_lines[i], width), width, alignment)
         \o render_raw_lines(raw_lines, i + 1, width, alignment)

\* if rendered.is_empty() { rendered.push(pad_cell("", width, alignment)) }
or_empty_line(rendered, width, alignment) ==
    IF rendered = <<>> THEN <<pad_cell(<<>>, width, alignment)>> ELSE rendered

\* cell is an Option<&Cell>
render_cell_lines(cell, width, alignment) ==
    or_empty_line(IF cell.some
                  THEN render_raw_lines(cell.v.lines, 1, width, alignment)
                  ELSE <<>>,
                  width, alignment)

RECURSIVE row_line(_, _, _)
row_line(column_lines, line_idx, col_idx) ==
    IF col_idx > Len(column_lines)
    THEN <<>>
    ELSE <<" ">> \o column_lines[col_idx][line_idx] \o <<" ", "U+2502">>
         \o row_line(column_lines, line_idx, col_idx + 1)

\* takes the height of the first column for the height of the row
join_columns_first_height(column_lines, widths, alignments) ==
    LET height == Len(column_lines[1])
        padded ==
            [idx \in 1..Len(widths) |->
                column_lines[idx]
                \o [j \in 1..(height - Len(column_lines[idx])) |->
                       pad_cell(<<>>, widths[idx], alignments[idx])]]
    IN [line_idx \in 1..height |-> <<"U+2502">> \o row_line(padded, line_idx, 1)]

\* build_row_lines once the cells are rendered: the columns are padded to one
\* height and joined line by line
join_columns(column_lines, widths, alignments) ==
    LET height == max_of([idx \in 1..Len(widths) |-> Len(column_lines[idx])], 1)
        padded ==
            [idx \in 1..Len(widths) |->
                column_lines[idx]
                \o [j \in 1..(height - Len(column_lines[idx])) |->
                       pad_cell(<<>>, widths[idx], alignments[idx])]]
    IN [line_idx \in 1..height |-> <<"U+2502">> \o row_line(padded, line_idx, 1)]

build_row_lines(row, widths, alignments) ==
    IF widths = <<>>
    THEN <<>>
    ELSE join_columns([idx \in 1..Len(widths) |->
                          render_cell_lines(
                              IF idx <= Len(row)
                              THEN [some |-> TRUE, v |-> row[idx]]
                              ELSE [some |-> FALSE, v |-> [lines |-> <<>>]],
                              widths[idx], alignments[idx])],
                      widths, alignments)

RECURSIVE border_from(_, _, _, _)
border_from(junction, right, widths, idx) ==
    IF idx > Len(widths)
    THEN <<>>
    ELSE repeat(<<"U+2500">>, widths[idx] + 2)
         \o <<IF idx = Len(widths) THEN right ELSE junction>>
         \o border_from(junction, right, widths, idx + 1)

unicode_border(left, junction, right, widths) ==
    <<left>> \o border_from(junction, right, widths, 1)

\* Line::from(String): one unstyled span
Line_from(text) == <<Span_styled(text, Style_default)>>

RECURSIVE widths_of_rows(_, _, _)
widths_of_rows(widths, rows, i) ==
    IF i > Len(rows)
    THEN widths
    ELSE widths_of_rows(update_widths(widths, rows[i]), rows, i + 1)

\* the lines of a row as Lines
lines_from(row_lines) == [j \in 1..Len(row_lines) |-> Line_from(row_lines[j])]

\* pushes the separator after every body row, the last one too
RECURSIVE body_lines_trailing_separator(_, _, _, _)
body_lines_trailing_separator(rows, idx, widths, alignments) ==
    IF idx > Len(rows)
    THEN <<>>
    ELSE lines_from(build_row_lines(rows[idx], widths, alignments))
         \o <<Line_from(unicode_border("U+251C", "U+253C", "U+2524", widths))>>
         \o body_lines_trailing_separator(rows, idx + 1, widths, alignments)

RECURSIVE body_lines(_, _, _, _)
body_lines(rows, idx, widths, alignments) ==
    IF idx > Len(rows)
    THEN <<>>
    ELSE lines_from(build_row_lines(rows[idx], widths, alignments))
         \o (IF idx < Len(rows)
             THEN <<Line_from(unicode_border("U+251C", "U+253C", "U+2524", widths))>>
             ELSE <<>>)
         \o body_lines(rows, idx + 1, widths, alignments)

\* the column count of a table whose open cell and row are closed
col_count(t) ==
    Max(Max(Len(t.alignments), IF t.header.some THEN Len(t.header.v) ELSE 0),
        max_of([i \in 1..Len(t.rows) |-> Len(t.rows[i])], 1))

\* the column widths of into_lines: 3 at least, widened by the header and
\* the rows, then clamped
column_widths(t, count) ==
    clamp_column_widths(
        widths_of_rows(IF t.header.some
                       THEN update_widths([i \in 1..count |-> 3], t.header.v)
                       ELSE [i \in 1..count |-> 3],
                       t.rows, 1),
        t.max_width)

\* the lines of into_lines once the widths and the alignments are known
table_lines(t, widths, alignments) ==
    <<Line_from(unicode_border("U+250C", "U+252C", "U+2510", widths))>>
    \o (IF t.header.some
        THEN lines_from(build_row_lines(t.header.v, widths, alignments))
             \o <<Line_from(unicode_border("U+251C", "U+253C", "U+2524", widths))>>
        ELSE <<>>)
    \o body_lines(t.rows, 1, widths, alignments)
    \o <<Line_from(unicode_border("U+2514", "U+2534", "U+2518", widths))>>

\* into_lines after its column count
sized_lines(t, count) ==
    IF count = 0
    THEN <<>>
    ELSE table_lines(t, column_widths(t, count),
                     t.alignments \o [i \in 1..(count - Len(t.alignments)) |-> "Left"])

into_lines(t0) ==
    LET t1 == close_cell(t0)
        t == IF t1.current_row # <<>> THEN end_row(t1) ELSE t1
    IN sized_lines(t, col_count(t))

CodeBlockState_default == [start_line |-> NoneNat, language |-> NoneStr]

MarkdownBuffer_new(opts) ==
    [lines |-> <<>>, current |-> <<>>, line_start |-> TRUE,
     last_blank |-> TRUE, pending_heading |-> NoneNat,
     heading_overlays |-> <<>>, style_stack |-> <<Style_default>>,
     list_stack |-> <<>>, blockquote_depth |-> 0, table |-> NoTable,
     code_blocks |-> <<>>, rule_lines |-> <<>>,
     code_block |-> CodeBlockState_default, options |-> opts,
     gap_lines |-> {}]

(***************************************************************************)
(* MarkdownBuffer.                                                         *)
(***************************************************************************)
code_block_style == Style_bg(Style_fg(Style_default, CODE_BLOCK_FG), CODE_BLOCK_BG)

heading_text_style(level) ==
    CASE level = 1 -> add_modifier(Style_fg(Style_default, "Cyan"), "BOLD")
      [] level = 2 -> add_modifier(Style_fg(Style_default, "LightBlue"), "BOLD")
      [] level = 3 -> add_modifier(Style_fg(Style_default, "LightMagenta"), "BOLD")
      [] level = 4 -> Style_fg(Style_default, "Magenta")
      [] level = 5 -> add_modifier(Style_fg(Style_default, "Magenta"), "ITALIC")
      [] OTHER -> add_modifier(Style_fg(Style_default, "Gray"), "ITALIC")

BULLETS == <<"U+25CF", "U+25CB", "U+25A0", "U+25A1">>

\* unordered_bullet staying on the last glyph instead of cycling
unordered_bullet_saturating(depth) ==
    BULLETS[IF depth >= Len(BULLETS) THEN Len(BULLETS) ELSE depth + 1]

unordered_bullet(depth) == BULLETS[(depth % Len(BULLETS)) + 1]

push_style(b, style) == [b EXCEPT !.style_stack = Append(@, style)]

\* pop_style leaving the stack as it is
pop_style_never(b) == b

pop_style_unguarded(b) ==
    [b EXCEPT !.style_stack = SubSeq(@, 1, Len(@) - 1)]

pop_style(b) ==
    IF Len(b.style_stack) > 1
    THEN [b EXCEPT !.style_stack = SubSeq(@, 1, Len(@) - 1)]
    ELSE b

current_style(b) ==
    IF b.style_stack # <<>> THEN b.style_stack[Len(b.style_stack)] ELSE Style_default

\* insert_prefixes giving the quote marker its own style inside a code block too
insert_prefixes_plain_marker(b) ==
    LET b1 == IF is_active(b.code_block)
              THEN push_span(b, Span_styled(<<" ", " ", " ", " ">>, code_block_style), FALSE)
              ELSE b
        style == Style_fg(Style_default, "DarkGray")
    IN IF b.blockquote_depth > 0
       THEN push_span(b1, Span_styled(repeat(<<">", " ">>, b.blockquote_depth), style), FALSE)
       ELSE b1

insert_prefixes(b) ==
    LET b1 == IF is_active(b.code_block)
              THEN push_span(b, Span_styled(<<" ", " ", " ", " ">>, code_block_style), FALSE)
              ELSE b
        base == Style_fg(Style_default, "DarkGray")
        style == IF is_active(b.code_block) THEN Style_bg(base, CODE_BLOCK_BG) ELSE base
    IN IF b.blockquote_depth > 0
       THEN push_span(b1, Span_styled(repeat(<<">", " ">>, b.blockquote_depth), style), FALSE)
       ELSE b1

push_text_segment(b, text) ==
    IF text = <<>>
    THEN b
    ELSE LET b1 == IF b.style_stack = <<>> THEN push_style(b, Style_default) ELSE b
             b2 == IF b1.line_start THEN insert_prefixes(b1) ELSE b1
         IN push_span(b2, Span_styled(text, current_style(b2)), TRUE)

\* a newline with nothing pending ends no line
RECURSIVE push_text_chars_skip_empty(_, _, _, _)
push_text_chars_skip_empty(b, text, i, buffer) ==
    IF i > Len(text)
    THEN IF buffer # <<>> THEN push_text_segment(b, buffer) ELSE b
    ELSE IF text[i] = "\n"
         THEN push_text_chars_skip_empty(
                  flush_line(push_text_segment(b, buffer), FALSE), text, i + 1, <<>>)
         ELSE push_text_chars_skip_empty(b, text, i + 1, Append(buffer, text[i]))

\* the loop over text.chars() of push_text, from character i on
RECURSIVE push_text_chars(_, _, _, _)
push_text_chars(b, text, i, buffer) ==
    IF i > Len(text)
    THEN IF buffer # <<>> THEN push_text_segment(b, buffer) ELSE b
    ELSE IF text[i] = "\n"
         THEN push_text_chars(flush_line(push_text_segment(b, buffer), TRUE),
                              text, i + 1, <<>>)
         ELSE push_text_chars(b, text, i + 1, Append(buffer, text[i]))

push_text(b, text) ==
    IF text = <<>>
    THEN b
    ELSE IF is_active(b.code_block) /\ contains(text, "\n")
         THEN push_text_chars(b, text, 1, <<>>)
         ELSE push_text_segment(b, text)

push_code_span(b, text) ==
    LET style == add_modifier(Style_fg(current_style(b), "Yellow"), "DIM")
        b1 == IF b.line_start THEN insert_prefixes(b) ELSE b
    IN push_span(b1, Span_styled(<<Backtick>> \o text \o <<Backtick>>, style), TRUE)

soft_break_allow_empty(b) == flush_line(b, TRUE)

soft_break(b) == flush_line(b, FALSE)

hard_break(b) == flush_line(b, TRUE)

start_code_block(b, kind) ==
    LET b1 == flush_line(ensure_block_gap(b), FALSE)
        trimmed == trim(kind.s)
        language == IF kind.opt
                    THEN IF trimmed = <<>> THEN NoneStr ELSE SomeStr(trimmed)
                    ELSE NoneStr
        start == Len(b1.lines)
    IN push_style([b1 EXCEPT !.code_block = CodeBlockState_start(start, language)],
                  code_block_style)

\* start_list_item without the increment of the list's index
start_list_item_no_increment(b) ==
    LET b1 == flush_line(b, FALSE)
        depth == Len(b1.list_stack)
        indent == (IF depth >= 1 THEN depth - 1 ELSE 0) * 2
        padding == repeat(<<" ">>, indent)
        gray == Style_fg(Style_default, "Gray")
    IN IF depth > 0
       THEN LET state == b1.list_stack[depth]
            IN IF state.ordered
               THEN push_span(b1,
                              Span_styled(padding \o to_string(state.index) \o <<".", " ">>, gray),
                              FALSE)
               ELSE push_span(b1,
                              Span_styled(padding \o <<unordered_bullet(depth - 1)>> \o <<" ">>, gray),
                              FALSE)
       ELSE push_span(b1, Span_styled(<<"-", " ">>, gray), FALSE)

start_list_item(b) ==
    LET b1 == flush_line(b, FALSE)
        depth == Len(b1.list_stack)
        indent == (IF depth >= 1 THEN depth - 1 ELSE 0) * 2
        padding == repeat(<<" ">>, indent)
        gray == Style_fg(Style_default, "Gray")
    IN IF depth > 0
       THEN LET state == b1.list_stack[depth]
            IN IF state.ordered
               THEN push_span([b1 EXCEPT !.list_stack[depth].index = @ + 1],
                              Span_styled(padding \o to_string(state.index) \o <<".", " ">>, gray),
                              FALSE)
               ELSE push_span(b1,
                              Span_styled(padding \o <<unordered_bullet(depth - 1)>> \o <<" ">>, gray),
                              FALSE)
       ELSE push_span(b1, Span_styled(<<"-", " ">>, gray), FALSE)

\* finish_code_block without the synthesized line of an empty block
finish_code_block_no_synthesis(b) ==
    IF ~b.code_block.start_line.some
    THEN b
    ELSE LET start == b.code_block.start_line.v
             language == b.code_block.language
             b1 == [b EXCEPT !.code_block = CodeBlockState_default]
             end == Len(b1.lines)
         IN IF end > start
            THEN [b1 EXCEPT !.code_blocks =
                      Append(@, [line_start |-> start,
                                 line_end |-> end,
                                 language |-> language])]
            ELSE b1

finish_code_block(b) ==
    IF ~b.code_block.start_line.some
    THEN b
    ELSE LET start == b.code_block.start_line.v
             language == b.code_block.language
             b1 == [b EXCEPT !.code_block = CodeBlockState_default]
         IN IF start > Len(b1.lines)
            THEN b1
            ELSE LET b2 == IF start = Len(b1.lines)
                           THEN push_manual_line(b1, Line_default)
                           ELSE b1
                     end == Len(b2.lines)
                 IN IF end > start
                    THEN [b2 EXCEPT !.code_blocks =
                              Append(@, [line_start |-> start,
                                         line_end |-> end,
                                         language |-> language])]
                    ELSE b2

\* push_rule without mark_last_non_blank
push_rule_unmarked(b) ==
    LET b1 == ensure_block_gap(b)
        line_index == Len(b1.lines)
        b2 == push_manual_line(b1, Line_default)
        b3 == [b2 EXCEPT !.rule_lines = Append(@, line_index)]
    IN push_blank_line(b3)

push_rule(b) ==
    LET b1 == ensure_block_gap(b)
        line_index == Len(b1.lines)
        b2 == push_manual_line(b1, Line_default)
        b3 == [b2 EXCEPT !.rule_lines = Append(@, line_index)]
    IN push_blank_line(mark_last_non_blank(b3))

image_label(tag) ==
    IF tag.s = <<>>
    THEN <<"!", "[", "i", "m", "a", "g", "e", "]", "(">> \o ImageDest \o <<")">>
    ELSE <<"!", "[">> \o tag.s \o <<"]", "(">> \o ImageDest \o <<")">>

footnote_label(name) == <<"[", "^">> \o name \o <<"]">>

table_cell_active(b) == b.table.some /\ is_collecting(b.table.v)

start_tag(b, tag) ==
    CASE tag.t = "Table" ->
            [flush_line(ensure_block_gap(b), FALSE) EXCEPT
                !.table = [some |-> TRUE,
                           v |-> TableBuilder_new(tag.s, b.options.max_table_width)]]
      [] tag.t = "TableHead" ->
            IF b.table.some THEN [b EXCEPT !.table.v = start_head(@)] ELSE b
      [] tag.t = "TableRow" ->
            IF b.table.some THEN [b EXCEPT !.table.v = start_row(@)] ELSE b
      [] tag.t = "TableCell" ->
            IF b.table.some THEN [b EXCEPT !.table.v = start_cell(@)] ELSE b
      [] table_cell_active(b)
         /\ tag.t \in {"Emphasis", "Strong", "Strikethrough", "Link", "Paragraph"} -> b
      [] tag.t = "Paragraph" -> ensure_block_gap(b)
      [] tag.t = "Heading" ->
            push_style(queue_heading(ensure_block_gap(b), tag.n),
                       heading_text_style(tag.n))
      [] tag.t = "BlockQuote" ->
            push_style([ensure_block_gap(b) EXCEPT !.blockquote_depth = @ + 1],
                       add_modifier(Style_fg(Style_default, "Gray"), "ITALIC"))
      [] tag.t = "List" ->
            [b EXCEPT !.list_stack =
                 Append(@, [ordered |-> tag.opt,
                            index |-> IF tag.opt THEN tag.n ELSE 1])]
      [] tag.t = "Item" -> start_list_item(b)
      [] tag.t = "CodeBlock" -> start_code_block(b, tag)
      [] tag.t = "Emphasis" -> push_style(b, add_modifier(current_style(b), "ITALIC"))
      [] tag.t = "Strong" -> push_style(b, add_modifier(current_style(b), "BOLD"))
      [] tag.t = "Strikethrough" ->
            push_style(b, add_modifier(current_style(b), "CROSSED_OUT"))
      [] tag.t = "Link" ->
            push_style(b, add_modifier(Style_fg(current_style(b), "Cyan"), "UNDERLINED"))
      [] tag.t = "Image" ->
            soft_break(push_text(ensure_block_gap(b), image_label(tag)))
      [] tag.t = "FootnoteDefinition" ->
            soft_break(push_text(ensure_block_gap(b), footnote_label(tag.s)))
      [] OTHER -> b

empty_table_line ==
    Line_from(<<"(", "e", "m", "p", "t", "y", " ", "t", "a", "b", "l", "e", ")">>)

end_tag(b, tag) ==
    CASE tag.t = "TableCell" ->
            IF b.table.some THEN [b EXCEPT !.table.v = end_cell(@)] ELSE b
      [] tag.t = "TableRow" ->
            IF b.table.some THEN [b EXCEPT !.table.v = end_row(@)] ELSE b
      [] tag.t = "TableHead" ->
            IF b.table.some THEN [b EXCEPT !.table.v = end_head(@)] ELSE b
      [] tag.t = "Table" ->
            LET b1 == flush_line(b, FALSE)
                rendered == into_lines(b1.table.v)
            IN IF b1.table.some
               THEN push_blank_line(
                        extend_lines([b1 EXCEPT !.table = NoTable],
                                     IF rendered = <<>>
                                     THEN <<empty_table_line>>
                                     ELSE rendered))
               ELSE b1
      [] table_cell_active(b)
         /\ tag.t \in {"Emphasis", "Strong", "Strikethrough", "Link"} -> b
      [] tag.t = "Paragraph" -> push_blank_line(flush_line(b, FALSE))
      [] tag.t = "Heading" -> pop_style(push_blank_line(flush_line(b, FALSE)))
      [] tag.t = "BlockQuote" ->
            LET b1 == flush_line(b, FALSE)
                b2 == IF b1.blockquote_depth > 0
                      THEN [b1 EXCEPT !.blockquote_depth = @ - 1]
                      ELSE b1
            IN push_blank_line(pop_style(b2))
      [] tag.t = "List" ->
            LET b1 == flush_line(b, FALSE)
            IN push_blank_line(
                   [b1 EXCEPT !.list_stack =
                        IF @ = <<>> THEN @ ELSE SubSeq(@, 1, Len(@) - 1)])
      [] tag.t = "Item" -> flush_line(b, FALSE)
      [] tag.t = "CodeBlock" ->
            push_blank_line(pop_style(finish_code_block(flush_line(b, FALSE))))
      [] tag.t \in {"Emphasis", "Strong", "Strikethrough", "Link"} -> pop_style(b)
      [] OTHER -> b

task_marker(done) ==
    IF done THEN <<"[", "x", "]", " ">> ELSE <<"[", " ", "]", " ">>

\* the push_table_* methods, called when a cell is being collected (they
\* return true exactly then)
push_table_text(b, text) == [b EXCEPT !.table.v = TableBuilder_push_text(@, text)]
push_table_html(b, html) == [b EXCEPT !.table.v = TableBuilder_push_html(@, html)]
push_table_code_to_line(b, text) == push_code_span(b, text)
push_table_code(b, text) == [b EXCEPT !.table.v = TableBuilder_push_code(@, text)]
push_table_soft_break(b) == [b EXCEPT !.table.v = TableBuilder_push_soft_break(@)]
push_table_hard_break(b) == [b EXCEPT !.table.v = TableBuilder_push_hard_break(@)]

handle_event(b, e) ==
    CASE e.k = "Start" -> start_tag(b, e.tag)
      [] e.k = "End" -> end_tag(b, e.tag)
      [] e.k = "Text" ->
            IF table_cell_active(b) THEN push_table_text(b, e.text) ELSE push_text(b, e.text)
      [] e.k = "Code" ->
            IF table_cell_active(b)
            THEN push_table_code(b, e.text)
            ELSE push_code_span(b, e.text)
      [] e.k = "Html" ->
            IF table_cell_active(b) THEN push_table_html(b, e.text) ELSE push_text(b, e.text)
      [] e.k = "SoftBreak" ->
            IF table_cell_active(b) THEN push_table_soft_break(b) ELSE soft_break(b)
      [] e.k = "HardBreak" ->
            IF table_cell_active(b) THEN push_table_hard_break(b) ELSE hard_break(b)
      [] e.k = "Rule" -> push_rule(b)
      [] e.k = "FootnoteReference" ->
            IF table_cell_active(b)
            THEN push_table_text(b, footnote_label(e.text))
            ELSE push_text(b, footnote_label(e.text))
      [] e.k = "TaskListMarker" ->
            IF table_cell_active(b)
            THEN push_table_text(b, task_marker(e.done))
            ELSE push_text(b, task_marker(e.done))
      [] OTHER -> b

(***************************************************************************)
(* Line metrics: the rows a line occupies in a viewport of a given width.  *)
(***************************************************************************)
\* Line::width: the display widths of the spans, summed
RECURSIVE Line_width(_)
Line_width(line) ==
    IF line = <<>> THEN 0 ELSE str_width(Head(line).content) + Line_width(Tail(line))

Min(a, b) == IF a <= b THEN a ELSE b

\* a width of 0 counted as 1
row_span_least_width(line_width, width) ==
    IF line_width = 0
    THEN 1
    ELSE Min((line_width + Max(width, 1) - 1) \div Max(width, 1), U16_MAX)

\* rounds down
row_span_floor(line_width, width) ==
    IF width = 0
    THEN 0
    ELSE IF line_width = 0 THEN 1 ELSE Min(line_width \div width, U16_MAX)

\* line_row_span once line.width() is known
row_span(line_width, width) ==
    IF width = 0
    THEN 0
    ELSE IF line_width = 0
         THEN 1
         ELSE Min((line_width + width - 1) \div width, U16_MAX)

line_row_span(line, width) == row_span(Line_width(line), width)

\* total_rows, of the fields content and viewport_width
RECURSIVE total_rows(_, _)
total_rows(content, viewport_width) ==
    IF content = <<>>
    THEN 0
    ELSE line_row_span(Head(content), Max(viewport_width, 1))
         + total_rows(Tail(content), viewport_width)

\* the loop of compute_line_metrics from line i on
RECURSIVE push_offsets(_, _, _, _, _)
push_offsets(content, width, i, total, offsets) ==
    IF i > Len(content)
    THEN offsets
    ELSE push_offsets(content, width, i + 1, total + line_row_span(content[i], width),
                      Append(offsets, total + line_row_span(content[i], width)))

\* leaves out offsets.push(0)
compute_line_metrics_no_origin(content, width) ==
    [offsets |-> push_offsets(content, width, 1, 0, <<>>)]

\* LineMetrics { offsets }
compute_line_metrics(content, width) ==
    [offsets |-> push_offsets(content, width, 1, 0, <<0>>)]

\* slice::get, the index counted from 0
get(offsets, index) ==
    IF index < Len(offsets) THEN SomeNat(offsets[index + 1]) ELSE NoneNat

NoRange == [some |-> FALSE, v |-> <<0, 0>>]

\* returns the rows of an empty or inverted range as well
line_range_unordered(metrics, start_line, end_line) ==
    IF end_line >= Len(metrics.offsets)
    THEN NoRange
    ELSE IF ~get(metrics.offsets, start_line).some \/ ~get(metrics.offsets, end_line).some
         THEN NoRange
         ELSE [some |-> TRUE,
               v |-> <<get(metrics.offsets, start_line).v,
                       get(metrics.offsets, end_line).v>>]

line_range(metrics, start_line, end_line) ==
    IF end_line >= Len(metrics.offsets) \/ start_line >= end_line
    THEN NoRange
    ELSE IF ~get(metrics.offsets, start_line).some \/ ~get(metrics.offsets, end_line).some
         THEN NoRange
         ELSE [some |-> TRUE,
               v |-> <<get(metrics.offsets, start_line).v,
                       get(metrics.offsets, end_line).v>>]

\* the rows of one overlay as a painter finds them, None where it goes on
\* to the next overlay: the guards of highlight_headings and of render_rules
\* on a line index
line_overlay_rows(line, content, metrics) ==
    IF line >= Len(content)
    THEN NoRange
    ELSE IF ~line_range(metrics, line, line + 1).some
         THEN NoRange
         ELSE IF line_range(metrics, line, line + 1).v[2]
                    <= line_range(metrics, line, line + 1).v[1]
              THEN NoRange
              ELSE line_range(metrics, line, line + 1)

\* the guards of render_code_blocks on a block
block_overlay_rows(block, content, metrics) ==
    IF block.line_start >= Len(content)
    THEN NoRange
    ELSE IF ~line_range(metrics, block.line_start,
                        Min(block.line_end, Len(content))).some
         THEN NoRange
         ELSE IF line_range(metrics, block.line_start,
                            Min(block.line_end, Len(content))).v[2]
                    <= line_range(metrics, block.line_start,
                                  Min(block.line_end, Len(content))).v[1]
              THEN NoRange
              ELSE line_range(metrics, block.line_start,
                              Min(block.line_end, Len(content)))

(***************************************************************************)
(* The viewer: App, its compile of the source and the key handler. The     *)
(* source text is held as the event stream the parser gives for it.        *)
(***************************************************************************)
\* MarkdownBuffer::finalize: the RenderedMarkdown
MarkdownBuffer_finalize(b) ==
    [lines |-> LineWriter_finalize(b).lines,
     headings |-> LineWriter_finalize(b).heading_overlays,
     code_blocks |-> b.code_blocks,
     rules |-> b.rule_lines]

\* for event in parser { buffer.handle_event(event) }
RECURSIVE handle_events(_, _, _)
handle_events(b, events, i) ==
    IF i > Len(events)
    THEN b
    ELSE handle_events(handle_event(b, events[i]), events, i + 1)

markdown_to_render_with_options(markdown, opts) ==
    MarkdownBuffer_finalize(handle_events(MarkdownBuffer_new(opts), markdown, 1))

ensure_non_empty(content) ==
    IF content = <<>>
    THEN <<Line_from(<<"(", "f", "i", "l", "e", " ", "i", "s", " ", "e", "m", "p", "t",
                       "y", ")">>)>>
    ELSE content

App_new(source, render, table_width) ==
    [source |-> source,
     headings |-> render.headings,
     code_blocks |-> render.code_blocks,
     rules |-> render.rules,
     content |-> ensure_non_empty(render.lines),
     table_width |-> table_width,
     scroll |-> 0,
     viewport_height |-> 0,
     viewport_width |-> DEFAULT_VIEWPORT_WIDTH,
     status |-> "Press ? for help, q to quit",
     show_help |-> FALSE]

\* leaves self.rules as it was
apply_render_keeps_rules(a, render) ==
    [a EXCEPT !.content = ensure_non_empty(render.lines),
              !.headings = render.headings,
              !.code_blocks = render.code_blocks]

apply_render(a, render) ==
    [a EXCEPT !.content = ensure_non_empty(render.lines),
              !.headings = render.headings,
              !.code_blocks = render.code_blocks,
              !.rules = render.rules]

\* the outcome of fs::read_to_string: an error, or the text of the file
ReadErr == [ok |-> FALSE, markdown |-> <<>>]
ReadOk(markdown) == [ok |-> TRUE, markdown |-> markdown]

\* resets the scroll position before it reads the file
reload_scroll_first(a, read) ==
    IF ~read.ok
    THEN [app |-> [a EXCEPT !.scroll = 0], ok |-> FALSE]
    ELSE [app |-> [apply_render([a EXCEPT !.source = read.markdown],
                                markdown_to_render_with_options(
                                    read.markdown,
                                    [max_table_width |-> Max(a.table_width, 1)]))
                      EXCEPT !.scroll = 0],
          ok |-> TRUE]

\* App::reload with the outcome of its read: the App after it, and whether it
\* returns Ok
reload(a, read) ==
    IF ~read.ok
    THEN [app |-> a, ok |-> FALSE]
    ELSE [app |-> [apply_render([a EXCEPT !.source = read.markdown],
                                markdown_to_render_with_options(
                                    read.markdown,
                                    [max_table_width |-> Max(a.table_width, 1)]))
                      EXCEPT !.scroll = 0],
          ok |-> TRUE]

saturating_sub(a, b) == IF a >= b THEN a - b ELSE 0

max_scroll(a) ==
    saturating_sub(total_rows(a.content, a.viewport_width), a.viewport_height)

scroll_up(a, rows) ==
    IF rows = 0 THEN a ELSE [a EXCEPT !.scroll = saturating_sub(@, rows)]

scroll_down(a, rows) ==
    IF rows = 0 THEN a ELSE [a EXCEPT !.scroll = Min(@ + rows, max_scroll(a))]

scroll_to(a, row) == [a EXCEPT !.scroll = Min(row, max_scroll(a))]

scroll_to_end(a) == [a EXCEPT !.scroll = max_scroll(a)]

set_status(a, msg) == [a EXCEPT !.status = msg]

\* ensure_table_width after its early return: max_scroll is taken of the new
\* Document
recompiled(a, width) ==
    [a EXCEPT !.table_width = width, !.scroll = Min(@, max_scroll(a))]

ensure_table_width(a, width) ==
    IF Max(width, 1) = a.table_width
    THEN a
    ELSE recompiled(apply_render(a, markdown_to_render_with_options(
                                        a.source,
                                        [max_table_width |-> Max(width, 1)])),
                    Max(width, 1))

(***************************************************************************)
(* The painters of draw. A Rect is [x, y, width, height]; a painter gives  *)
(* the cells it writes, each with the symbol or colours it sets.           *)
(***************************************************************************)
CODE_BLOCK_BORDER_FG == "Rgb(150,160,175)"
RULE_FG == "DarkGray"

\* viewer_block.inner(viewport): inside the border and the horizontal padding
viewer_inner(inner_width, inner_height) ==
    [x |-> 2, y |-> 1, width |-> inner_width, height |-> inner_height]

\* heading_block_colors(level).0
heading_block_bg(level) ==
    CASE level = 1 -> "Rgb(48,52,70)"
      [] level = 2 -> "Rgb(40,44,60)"
      [] level = 3 -> "Rgb(35,39,54)"
      [] level = 4 -> "Rgb(30,34,48)"
      [] level = 5 -> "Rgb(28,32,44)"
      [] OTHER -> "Rgb(24,28,38)"

\* for x in inner.x..inner.x.saturating_add(inner.width)
inner_columns(inner) == inner.x .. (inner.x + inner.width - 1)

\* the window offsets a painter walks: for offset in from..to, left at the
\* first offset >= inner.height
window_offsets(from, to, inner) == {o \in from .. (to - 1) : o < inner.height}

heading_cells_unclipped(heading, row_start, row_end, visible_start_row, inner) ==
    IF row_end <= visible_start_row \/ row_start >= visible_start_row + inner.height
    THEN {}
    ELSE {[x |-> x, y |-> inner.y + o, bg |-> heading_block_bg(heading.level)] :
             x \in inner_columns(inner),
             o \in (Max(row_start, visible_start_row) - visible_start_row)
                      .. (row_end - visible_start_row - 1)}

\* highlight_headings on one heading whose rows are row_start..row_end
heading_cells(heading, row_start, row_end, visible_start_row, inner) ==
    IF row_end <= visible_start_row \/ row_start >= visible_start_row + inner.height
    THEN {}
    ELSE {[x |-> x, y |-> inner.y + o, bg |-> heading_block_bg(heading.level)] :
             x \in inner_columns(inner),
             o \in window_offsets(
                      Max(row_start, visible_start_row) - visible_start_row,
                      Min(row_end, visible_start_row + inner.height) - visible_start_row,
                      inner)}

highlight_headings(a, inner, metrics) ==
    IF inner.height = 0 \/ inner.width = 0
    THEN {}
    ELSE UNION {IF line_overlay_rows(a.headings[i].line, a.content, metrics).some
                THEN heading_cells(
                         a.headings[i],
                         line_overlay_rows(a.headings[i].line, a.content, metrics).v[1],
                         line_overlay_rows(a.headings[i].line, a.content, metrics).v[2],
                         a.scroll, inner)
                ELSE {} : i \in 1..Len(a.headings)}

\* render_rules on one rule whose rows are row_start..row_end
rule_cells(row_start, row_end, visible_start_row, inner) ==
    IF row_end <= visible_start_row \/ row_start >= visible_start_row + inner.height
    THEN {}
    ELSE {[x |-> x, y |-> inner.y + o, symbol |-> "U+2500", fg |-> RULE_FG] :
             x \in inner_columns(inner),
             o \in window_offsets(
                      Max(row_start, visible_start_row) - visible_start_row,
                      Min(row_end, visible_start_row + inner.height) - visible_start_row,
                      inner)}

render_rules(a, inner, metrics) ==
    IF inner.height = 0 \/ inner.width = 0
    THEN {}
    ELSE UNION {IF line_overlay_rows(a.rules[i], a.content, metrics).some
                THEN rule_cells(line_overlay_rows(a.rules[i], a.content, metrics).v[1],
                                line_overlay_rows(a.rules[i], a.content, metrics).v[2],
                                a.scroll, inner)
                ELSE {} : i \in 1..Len(a.rules)}

NoRect == [some |-> FALSE, v |-> [x |-> 0, y |-> 0, width |-> 0, height |-> 0]]
SomeRect(r) == [some |-> TRUE, v |-> r]

\* render_code_blocks from draw_start on: the frame's area, none when the
\* block is left out
frame_area(draw_start, draw_end, visible_start_row, visible_end_row, inner) ==
    LET offset_rows == saturating_sub(draw_start, visible_start_row)
        border_top == IF draw_start > visible_start_row
                      THEN inner.y + (offset_rows - 1)
                      ELSE inner.y
        content_bottom == inner.y + offset_rows + saturating_sub(draw_end, draw_start)
        border_bottom == IF draw_end < visible_end_row
                         THEN content_bottom + 1
                         ELSE content_bottom
        area_height == Max(saturating_sub(border_bottom, border_top), 3)
    IN  IF saturating_sub(draw_end, draw_start) = 0
        THEN NoRect
        ELSE IF border_top + area_height > inner.y + inner.height
             THEN NoRect
             ELSE SomeRect([x |-> inner.x, y |-> border_top,
                            width |-> inner.width, height |-> area_height])

\* render_code_blocks on one block whose rows are row_start..row_end
code_block_area(row_start, row_end, visible_start_row, inner) ==
    IF row_end <= visible_start_row \/ row_start >= visible_start_row + inner.height
    THEN NoRect
    ELSE frame_area(Max(row_start, visible_start_row),
                    Min(row_end, visible_start_row + inner.height),
                    visible_start_row, visible_start_row + inner.height, inner)

\* format!(" {} ", text)
title_label(title) == IF title.some THEN <<" ">> \o title.v \o <<" ">> ELSE <<>>

\* the symbol draw_code_block_border leaves in the cell (x, y) of the frame
border_symbol(x, y, left, right, top, bottom, label) ==
    IF y = top /\ x > left /\ x < right /\ x - left <= Len(label)
    THEN label[x - left]
    ELSE IF y \in {top, bottom}
         THEN IF x \in {left, right}
              THEN CASE x = left /\ y = top -> "U+250C"
                     [] x = right /\ y = top -> "U+2510"
                     [] x = left -> "U+2514"
                     [] OTHER -> "U+2518"
              ELSE "U+2500"
         ELSE "U+2502"

draw_code_block_border(area, title) ==
    IF area.width < 3 \/ area.height < 3
    THEN {}
    ELSE {[x |-> c[1], y |-> c[2],
           symbol |-> border_symbol(c[1], c[2], area.x,
                                    area.x + saturating_sub(area.width, 1), area.y,
                                    area.y + saturating_sub(area.height, 1),
                                    title_label(title)),
           fg |-> CODE_BLOCK_BORDER_FG, bg |-> CODE_BLOCK_BG] :
             c \in {d \in (area.x .. (area.x + area.width - 1))
                            \X (area.y .. (area.y + area.height - 1)) :
                       \/ d[1] \in {area.x, area.x + saturating_sub(area.width, 1)}
                       \/ d[2] \in {area.y, area.y + saturating_sub(area.height, 1)}}}

fill_code_block_background(area, inner) ==
    IF area.height <= 2
    THEN {}
    ELSE {[x |-> x, y |-> y, bg |-> CODE_BLOCK_BG] :
             x \in inner_columns(inner),
             y \in (area.y + 1) .. (area.y + saturating_sub(area.height, 1) - 1)}

\* the frame of one block of render_code_blocks: its area, the cells of the
\* border and the cells of the fill
code_block_frame(block, area, inner) ==
    [block |-> block, area |-> area,
     border |-> IF area.some THEN draw_code_block_border(area.v, block.language) ELSE {},
     fill |-> IF area.some THEN fill_code_block_background(area.v, inner) ELSE {}]

render_code_blocks(a, inner, metrics) ==
    IF inner.height = 0 \/ inner.width = 0
    THEN {}
    ELSE {code_block_frame(
              a.code_blocks[i],
              IF block_overlay_rows(a.code_blocks[i], a.content, metrics).some
              THEN code_block_area(
                       block_overlay_rows(a.code_blocks[i], a.content, metrics).v[1],
                       block_overlay_rows(a.code_blocks[i], a.content, metrics).v[2],
                       a.scroll, inner)
              ELSE NoRect,
              inner) : i \in 1..Len(a.code_blocks)}

\* draw up to the offsets table: the fields it assigns
resized(a, inner) ==
    [ensure_table_width([a EXCEPT !.viewport_height = Max(inner.height, 1)],
                        Max(inner.width, 1))
        EXCEPT !.viewport_width = Max(inner.width, 1)]

\* draw from the painters on, with the offsets table built
painted(a, inner, metrics) ==
    [app |-> a, inner |-> inner, metrics |-> metrics,
     headings |-> highlight_headings(a, inner, metrics),
     rules |-> render_rules(a, inner, metrics),
     code_blocks |-> render_code_blocks(a, inner, metrics)]

\* draw from the offsets table on
measured(a, inner) ==
    painted(a, inner, compute_line_metrics(a.content, Max(a.viewport_width, 1)))

draw_metrics_first(a, inner) ==
    painted(resized(a, inner), inner,
            compute_line_metrics(a.content, Max(inner.width, 1)))

\* App::draw on a frame whose viewer block has the inner area inner: the App
\* after it, the offsets table and what each painter wrote
draw(a, inner) == measured(resized(a, inner), inner)

\* handle_key with the outcome of the read of a reload: the App after it and
\* whether it returns Ok(true)
handle_key(a, code, read) ==
    CASE code \in {"q", "Ctrl-c"} -> [app |-> a, quit |-> TRUE]
      [] code \in {"Up", "k"} -> [app |-> scroll_up(a, 1), quit |-> FALSE]
      [] code \in {"Down", "j"} -> [app |-> scroll_down(a, 1), quit |-> FALSE]
      [] code = "PageUp" ->
            [app |-> scroll_up(a, saturating_sub(a.viewport_height, 1)), quit |-> FALSE]
      [] code = "PageDown" ->
            [app |-> scroll_down(a, saturating_sub(a.viewport_height, 1)),
             quit |-> FALSE]
      [] code \in {"Home", "g"} -> [app |-> scroll_to(a, 0), quit |-> FALSE]
      [] code \in {"End", "G"} -> [app |-> scroll_to_end(a), quit |-> FALSE]
      [] code = "r" ->
            [app |-> IF reload(a, read).ok
                     THEN set_status(reload(a, read).app, "Reloaded file")
                     ELSE set_status(reload(a, read).app, "Reload failed: {err}"),
             quit |-> FALSE]
      [] OTHER -> [app |-> a, quit |-> FALSE]

(***************************************************************************)
(* The App of main.rs: it keeps the Document and the headings, scrolls by  *)
(* Document lines in 16 bits, and has no width of its own (the text widget *)
(* wraps the lines at the inner width of the frame).                       *)
(***************************************************************************)
\* u16 arithmetic that wraps
as_u16(n) == n % (U16_MAX + 1)

\* markdown_to_render of main.rs: its handlers of headings, paragraphs and
\* text are those of markdown.rs, and it compiles tables at no given width
main_markdown_to_render(markdown) ==
    markdown_to_render_with_options(markdown,
                                    [max_table_width |-> DEFAULT_MAX_TABLE_WIDTH])

main_load(markdown) ==
    [content |-> ensure_non_empty(main_markdown_to_render(markdown).lines),
     headings |-> main_markdown_to_render(markdown).headings,
     scroll |-> 0,
     viewport_height |-> 0,
     status |-> "Press q to quit, arrows to scroll"]

main_reload(a, read) ==
    IF ~read.ok
    THEN [app |-> a, ok |-> FALSE]
    ELSE [app |-> [a EXCEPT
                      !.content =
                          ensure_non_empty(main_markdown_to_render(read.markdown).lines),
                      !.headings = main_markdown_to_render(read.markdown).headings,
                      !.scroll = 0],
          ok |-> TRUE]

\* draw of main.rs: the field it assigns
main_draw(a, inner_height) == [a EXCEPT !.viewport_height = Max(inner_height, 1)]

main_max_scroll(a) ==
    IF a.viewport_height = 0
    THEN 0
    ELSE IF Len(a.content) <= a.viewport_height
         THEN 0
         ELSE as_u16(Len(a.content) - a.viewport_height)

main_scroll_up(a, n) == [a EXCEPT !.scroll = saturating_sub(@, Max(n, 1))]

main_scroll_down(a, n) ==
    [a EXCEPT !.scroll = Min(as_u16(@ + Max(n, 1)), main_max_scroll(a))]

main_scroll_to(a, line) == [a EXCEPT !.scroll = Min(line, main_max_scroll(a))]

main_scroll_to_end(a) == [a EXCEPT !.scroll = main_max_scroll(a)]

\* handle_key on the App of main.rs
main_handle_key(a, code, read) ==
    CASE code \in {"q", "Ctrl-c"} -> [app |-> a, quit |-> TRUE]
      [] code \in {"Up", "k"} -> [app |-> main_scroll_up(a, 1), quit |-> FALSE]
      [] code \in {"Down", "j"} -> [app |-> main_scroll_down(a, 1), quit |-> FALSE]
      [] code = "PageUp" ->
            [app |-> main_scroll_up(a, saturating_sub(a.viewport_height, 1)),
             quit |-> FALSE]
      [] code = "PageDown" ->
            [app |-> main_scroll_down(a, saturating_sub(a.viewport_height, 1)),
             quit |-> FALSE]
      [] code \in {"Home", "g"} -> [app |-> main_scroll_to(a, 0), quit |-> FALSE]
      [] code \in {"End", "G"} -> [app |-> main_scroll_to_end(a), quit |-> FALSE]
      [] code = "r" ->
            [app |-> IF main_reload(a, read).ok
                     THEN [main_reload(a, read).app EXCEPT !.status = "Reloaded file"]
                     ELSE [main_reload(a, read).app
                              EXCEPT !.status = "Reload failed: {err}"],
             quit |-> FALSE]
      [] OTHER -> [app |-> a, quit |-> FALSE]

(***************************************************************************)
(* The event source: the streams pulldown-cmark produces are well nested.  *)
(***************************************************************************)
HeadingLevels == {1, 2}
ListStarts == {ListNone, ListSome(9)}
CodeBlockKinds == {CodeBlockIndented, CodeBlockFenced(<<" ">>),
                   CodeBlockFenced(<<" ", "r", " ">>)}
Texts == {<<"a">>}
CodeTexts == {<<"a">>, <<"\n">>, <<"a", "\n">>}
\* inline HTML is one tag; a line of an HTML block keeps its line ending
HtmlTexts == {<<"<", "b", "r", ">">>}
HtmlBlockTexts == {<<"<", "p", ">", "\n">>}
ImageTitles == {<<>>}
FootnoteNames == {<<"1">>}
TableAlignments == {<<"Right">>, <<"Left", "Center">>, <<"None", "None", "None">>}
TableWidths == {DEFAULT_MAX_TABLE_WIDTH}

Top == open[Len(open)]
TopTag == IF open = <<>> THEN "Document" ELSE Top.tag.t

\* containers of blocks
BlockContext == TopTag \in {"Document", "BlockQuote", "Item", "FootnoteDefinition"}
\* containers of inline content (a tight list item holds inline content directly)
InlineContext ==
    TopTag \in {"Paragraph", "Heading", "Item", "Emphasis", "Strong",
                "Strikethrough", "Link", "Image", "TableCell"}

BlockTags ==
    {Paragraph, BlockQuote} \cup {Heading(l) : l \in HeadingLevels}
    \cup ListStarts \cup CodeBlockKinds
    \cup {FootnoteDefinition(n) : n \in FootnoteNames}
    \cup {Table(a) : a \in TableAlignments}
InlineTags ==
    {Emphasis, Strong, Strikethrough, Link} \cup {Image(t) : t \in ImageTitles}

StartableTags ==
    (IF BlockContext THEN BlockTags ELSE {})
    \cup (IF InlineContext THEN InlineTags ELSE {})
    \cup (IF TopTag = "List" THEN {Item} ELSE {})
    \cup (IF TopTag = "Table"
          THEN IF Top.k = 0 THEN {TableHead} ELSE {TableRow}
          ELSE {})
    \cup (IF TopTag \in {"TableHead", "TableRow"} /\ Top.k < Len(open[Len(open) - 1].tag.s)
          THEN {TableCell}
          ELSE {})

\* a paragraph, an emphasis, a list and a table are never empty, a table
\* row has one cell per column, and no tag ends right after a break
CanClose ==
    /\ open # <<>>
    /\ Top.last # "break"
    /\ Top.tag.t \in {"Paragraph", "Emphasis", "Strong", "Strikethrough", "List", "Table"}
          => Top.k > 0
    /\ Top.tag.t \in {"TableHead", "TableRow"}
          => Top.k = Len(open[Len(open) - 1].tag.s)

\* a break stands between two pieces of inline content
CanBreak == InlineContext /\ Top.last = "inline"

\* the open stack after one more child event of the innermost open tag: k counts
\* the items of a list and the cells of a table row, and tells whether any
\* other tag has a child yet; last is
\* the kind of the latest child: "inline", "break" or "block"; text is the
\* text of a code block so far, pending tells whether spans were pending
\* when the tag started, style is the style in force when it started
Bumped(kind) ==
    IF open = <<>>
    THEN open
    ELSE [open EXCEPT ![Len(open)].k =
                          IF Top.tag.t \in {"List", "TableHead", "TableRow"}
                          THEN @ + 1
                          ELSE 1,
                      ![Len(open)].last = kind]

Opened(tag) ==
    Append(Bumped(IF tag \in InlineTags THEN "inline" ELSE "block"),
           [tag |-> tag, k |-> 0, last |-> "none", text |-> <<>>,
            pending |-> current # <<>>, style |-> current_style(Buf)])

\* the open stack after a Text event: the text of a code block is kept
Texted(t) ==
    IF TopTag = "CodeBlock"
    THEN [Bumped("inline") EXCEPT ![Len(open)].text = @ \o t]
    ELSE Bumped("inline")

InHeading == \E i \in 1..Len(open) : open[i].tag.t = "Heading"

\* the heading blocks of the stream: level, whether the heading is the first
\* event of the stream, and what it holds so far: nothing ("empty"), text on
\* one line ("text"), or text with a break or an image in it ("split")
HeadingsAfter(e) ==
    IF e.k = "Start" /\ e.tag.t = "Heading"
    THEN Append(headings, [level |-> e.tag.n, first |-> (nev = 0), content |-> "empty"])
    ELSE IF InHeading /\ e.k \in {"Text", "Code", "Html", "FootnoteReference"}
    THEN [headings EXCEPT ![Len(headings)].content = IF @ = "empty" THEN "text" ELSE @]
    ELSE IF InHeading /\ (e.k \in {"SoftBreak", "HardBreak"}
                          \/ (e.k = "Start" /\ e.tag.t = "Image"))
    THEN [headings EXCEPT ![Len(headings)].content = "split"]
    ELSE headings

Step(e, open2) ==
    /\ SetBuf(handle_event(Buf, e))
    /\ ev' = e
    /\ open' = open2
    /\ headings' = HeadingsAfter(e)
    /\ nev' = IF e.k = "End" THEN nev ELSE nev + 1
    /\ pc' = pc
    /\ UNCHANGED <<frame, app>>

\* the state after MarkdownBuffer::new(options), max_table_width drawn from widths
InitOf(widths) ==
    /\ \E w \in widths :
          LET b == MarkdownBuffer_new([max_table_width |-> w])
          IN /\ lines = b.lines
             /\ current = b.current
             /\ line_start = b.line_start
             /\ last_blank = b.last_blank
             /\ pending_heading = b.pending_heading
             /\ heading_overlays = b.heading_overlays
             /\ style_stack = b.style_stack
             /\ list_stack = b.list_stack
             /\ blockquote_depth = b.blockquote_depth
             /\ table = b.table
             /\ code_blocks = b.code_blocks
             /\ rule_lines = b.rule_lines
             /\ code_block = b.code_block
             /\ options = b.options
             /\ gap_lines = b.gap_lines
    /\ open = <<>>
    /\ headings = <<>>
    /\ nev = 0
    /\ ev = NoEvent
    /\ pc = "events"

\* no function runs on its own and no viewer is open
NoFrame == [fn |-> "none"]
NoApp == [open |-> FALSE]

Init == InitOf(TableWidths) /\ frame = NoFrame /\ app = NoApp

Running(max) == pc = "events" /\ nev < max

StartTagOf(tags, max) ==
    /\ Running(max)
    /\ \E tag \in StartableTags \cap tags :
          Step(Event("Start", tag, <<>>, FALSE), Opened(tag))

TextOf(max) ==
    /\ Running(max)
    /\ \E t \in (IF InlineContext THEN Texts ELSE {})
                \cup (IF TopTag = "CodeBlock" THEN CodeTexts ELSE {}) :
          Step(Event("Text", NoTag, t, FALSE), Texted(t))

StartTag ==
    StartTagOf(BlockTags \cup InlineTags \cup {Item, TableHead, TableRow, TableCell},
               MaxEvents)

EndTag ==
    /\ pc = "events"
    /\ CanClose
    /\ Step(Event("End", Top.tag, <<>>, FALSE), SubSeq(open, 1, Len(open) - 1))

Text == TextOf(MaxEvents)

Code ==
    /\ Running(MaxEvents)
    /\ InlineContext
    /\ \E t \in Texts : Step(Event("Code", NoTag, t, FALSE), Bumped("inline"))

Html ==
    /\ Running(MaxEvents)
    /\ (InlineContext \/ BlockContext)
    /\ \E t \in (IF InlineContext THEN HtmlTexts ELSE HtmlBlockTexts) :
          Step(Event("Html", NoTag, t, FALSE),
               Bumped(IF InlineContext THEN "inline" ELSE "block"))

SoftBreak ==
    /\ Running(MaxEvents)
    /\ CanBreak
    /\ Step(Event("SoftBreak", NoTag, <<>>, FALSE), Bumped("break"))

HardBreak ==
    /\ Running(MaxEvents)
    /\ CanBreak
    /\ Step(Event("HardBreak", NoTag, <<>>, FALSE), Bumped("break"))

Rule ==
    /\ Running(MaxEvents)
    /\ BlockContext
    /\ Step(Event("Rule", NoTag, <<>>, FALSE), Bumped("block"))

FootnoteReference ==
    /\ Running(MaxEvents)
    /\ InlineContext
    /\ \E n \in FootnoteNames :
          Step(Event("FootnoteReference", NoTag, n, FALSE), Bumped("inline"))

\* a task marker is the first event of a list item
TaskListMarker ==
    /\ Running(MaxEvents)
    /\ TopTag = "Item"
    /\ Top.k = 0
    /\ \E done \in BOOLEAN :
          Step(Event("TaskListMarker", NoTag, <<>>, done), Bumped("inline"))

\* end of stream: every tag is closed, MarkdownBuffer::finalize returns
Finalize ==
    /\ pc = "events"
    /\ open = <<>>
    /\ SetBuf(LineWriter_finalize(Buf))
    /\ pc' = "done"
    /\ UNCHANGED <<open, headings, nev, ev, frame, app>>

Next ==
    \/ StartTag
    \/ EndTag
    \/ Text
    \/ Code
    \/ Html
    \/ SoftBreak
    \/ HardBreak
    \/ Rule
    \/ FootnoteReference
    \/ TaskListMarker
    \/ Finalize

Spec == Init /\ [][Next]_vars

(***************************************************************************)
(* Streams of lists only, explored to a greater length: list starts, items *)
(* and the text of the items.                                              *)
(***************************************************************************)
ListStartTag == StartTagOf(ListStarts \cup {Item}, MaxListEvents)

ListText == TextOf(MaxListEvents)

NextLists ==
    \/ ListStartTag
    \/ EndTag
    \/ ListText
    \/ Finalize

SpecLists == Init /\ [][NextLists]_vars

(***************************************************************************)
(* Streams of tables only, compiled under narrow and wide table widths:    *)
(* the cells hold one text per explicit line, with words to wrap, a word   *)
(* longer than a narrow column and double-width glyphs.                    *)
(***************************************************************************)
NarrowTableWidths == {8, 14, 20, DEFAULT_MAX_TABLE_WIDTH}
CellTexts == {<<"a">>, <<"a", "b", "c", "d", "e", "f">>, <<"a", "b", " ", "c", "d">>,
              <<"U+1F600", "U+1F600">>}

InitTables == InitOf(NarrowTableWidths) /\ frame = NoFrame /\ app = NoApp

TableStartTag ==
    StartTagOf({Table(a) : a \in TableAlignments} \cup {TableHead, TableRow, TableCell},
               MaxTableEvents)

\* the text of a cell, or of one more explicit line of it
CellText ==
    /\ Running(MaxTableEvents)
    /\ TopTag = "TableCell"
    /\ Top.last # "inline"
    /\ \E t \in CellTexts : Step(Event("Text", NoTag, t, FALSE), Bumped("inline"))

\* <br> between two explicit lines of a cell
CellBreak ==
    /\ Running(MaxTableEvents)
    /\ TopTag = "TableCell"
    /\ Top.last = "inline"
    /\ \E t \in HtmlTexts : Step(Event("Html", NoTag, t, FALSE), Bumped("break"))

NextTables ==
    \/ TableStartTag
    \/ EndTag
    \/ CellText
    \/ CellBreak
    \/ Finalize

SpecTables == InitTables /\ [][NextTables]_vars

(***************************************************************************)
(* clamp_column_widths on its own, its loops one iteration a step: frame   *)
(* holds the slice widths, the arguments and the locals of adjust_widths;  *)
(* natural is the slice as passed.                                         *)
(***************************************************************************)
NaturalWidths ==
    UNION {[1..n -> MIN_COLUMN_WIDTH..MaxNaturalWidth] : n \in 1..MaxColumns}

InitWidths ==
    /\ InitOf({DEFAULT_MAX_TABLE_WIDTH})
    /\ app = NoApp
    /\ \E w \in NaturalWidths, m \in 0..MaxClampWidth :
          frame = [fn |-> "clamp_column_widths", pc |-> "entry", widths |-> w,
                   natural |-> w, max_width |-> m, target |-> 0, total |-> 0,
                   idx |-> 0]

\* clamp_column_widths up to its call of adjust_widths
ClampColumnWidths ==
    /\ frame.fn = "clamp_column_widths"
    /\ frame.pc = "entry"
    /\ LET border_space == 3 * Len(frame.widths) + 1
           fill == [i \in 1..Len(frame.widths) |-> MIN_COLUMN_WIDTH]
           max_content == frame.max_width - border_space
           min_total == MIN_COLUMN_WIDTH * Len(frame.widths)
           total == sum_of(frame.widths, 1)
       IN frame' =
            IF border_space >= frame.max_width \/ max_content <= min_total
            THEN [frame EXCEPT !.widths = fill, !.pc = "return"]
            ELSE IF total <= max_content
                 THEN [frame EXCEPT !.pc = "return"]
                 ELSE [frame EXCEPT
                          !.widths = scale_widths(frame.widths, max_content, total),
                          !.target = max_content,
                          !.pc = "adjust_widths"]
    /\ UNCHANGED <<compVars, app>>

\* adjust_widths up to its loops
AdjustWidths ==
    /\ frame.fn = "clamp_column_widths"
    /\ frame.pc = "adjust_widths"
    /\ LET total == sum_of(frame.widths, 1)
       IN frame' = [frame EXCEPT
                       !.total = total,
                       !.idx = 0,
                       !.pc = IF total > frame.target
                              THEN "remove"
                              ELSE IF total < frame.target THEN "add" ELSE "return"]
    /\ UNCHANGED <<compVars, app>>

\* one test of while total > target, and the iteration or the exit after it
RemoveUnit ==
    /\ frame.fn = "clamp_column_widths"
    /\ frame.pc = "remove"
    /\ frame' =
         IF frame.total > frame.target /\ widest_index(frame.widths) # 0
         THEN [frame EXCEPT !.widths = remove_unit(@, widest_index(frame.widths)),
                            !.total = @ - 1]
         ELSE [frame EXCEPT !.pc = "return"]
    /\ UNCHANGED <<compVars, app>>

\* one test of while total < target, and the iteration or the exit after it
AddUnit ==
    /\ frame.fn = "clamp_column_widths"
    /\ frame.pc = "add"
    /\ frame' =
         IF frame.total < frame.target
         THEN [frame EXCEPT !.widths = add_unit(@, frame.idx),
                            !.total = @ + 1,
                            !.idx = @ + 1]
         ELSE [frame EXCEPT !.pc = "return"]
    /\ UNCHANGED <<compVars, app>>

NextWidths ==
    \/ ClampColumnWidths
    \/ AdjustWidths
    \/ RemoveUnit
    \/ AddUnit

SpecWidths == InitWidths /\ [][NextWidths]_vars

\* the function is not suspended: a step that can be taken is taken
SpecWidthsLive == SpecWidths /\ WF_vars(NextWidths)

(***************************************************************************)
(* The row mapper on its own. A frame of line_row_span holds the width of  *)
(* a line (the line enters the function through line.width() only) and    *)
(* the width of the viewport. A frame of the metrics holds the fields      *)
(* content and viewport_width of an App; compute_line_metrics and          *)
(* total_rows run on them as they do in draw and in max_scroll, then one   *)
(* range is asked for, by line_range or by a painter for one overlay.      *)
(***************************************************************************)
\* widths near the cap of u16: (U16_MAX - 1) * width .. U16_MAX * width + 1
LongLineWidths ==
    UNION {{U16_MAX * c - c, U16_MAX * c, U16_MAX * c + 1} : c \in 1..MaxViewportWidth}

MetricLines ==
    {Line_default}
    \cup {Line_from(repeat(<<"a">>, w)) : w \in 1..MaxLineWidth}
    \cup {<<Span_styled(<<"a", "b">>, Style_default),
            Span_styled(<<"U+1F600">>, Style_default)>>}

Documents == UNION {[1..n -> MetricLines] : n \in 1..MaxDocLines}

NoMetrics == [offsets |-> <<>>]

InitMetrics ==
    /\ InitOf({DEFAULT_MAX_TABLE_WIDTH})
    /\ app = NoApp
    /\ \/ \E w \in (0..MaxLineWidth) \cup LongLineWidths, c \in 0..MaxViewportWidth :
             frame = [fn |-> "line_row_span", pc |-> "entry", line_width |-> w,
                      width |-> c, rows |-> 0]
       \/ \E d \in Documents, c \in 1..MaxViewportWidth, z \in {0, 1} :
             frame = [fn |-> "metrics", pc |-> "entry", content |-> d,
                      viewport_width |-> c, width |-> z * c,
                      metrics |-> NoMetrics, total |-> 0,
                      painter |-> "none", start_line |-> 0, end_line |-> 0,
                      range |-> NoRange, inner |-> viewer_inner(0, 0),
                      cells |-> {}]

LineRowSpan ==
    /\ frame.fn = "line_row_span"
    /\ frame.pc = "entry"
    /\ frame' = [frame EXCEPT !.rows = row_span(frame.line_width, frame.width),
                              !.pc = "return"]
    /\ UNCHANGED <<compVars, app>>

\* self.compute_line_metrics(width): draw passes viewport_width.max(1); the
\* frames with width 0 are the method on a zero width
ComputeLineMetrics ==
    /\ frame.fn = "metrics"
    /\ frame.pc = "entry"
    /\ frame' = [frame EXCEPT
                    !.metrics = compute_line_metrics(frame.content, frame.width),
                    !.pc = "metrics"]
    /\ UNCHANGED <<compVars, app>>

TotalRows ==
    /\ frame.fn = "metrics"
    /\ frame.pc = "metrics"
    /\ frame' = [frame EXCEPT
                    !.total = total_rows(frame.content, frame.viewport_width),
                    !.pc = "total"]
    /\ UNCHANGED <<compVars, app>>

\* the indices of a range query: lines of the Document and two past its end
LineIndices == 0..(Len(frame.content) + 1)

\* the inner areas a painter is given: of the viewport width and two rows,
\* or without rows, or without columns
PainterAreas ==
    {viewer_inner(frame.viewport_width, 2), viewer_inner(frame.viewport_width, 0),
     viewer_inner(0, 2)}

\* the fields of the App a painter reads, for a viewer at scroll 0
Painting(heading_list, rule_list, block_list) ==
    [content |-> frame.content, headings |-> heading_list, rules |-> rule_list,
     code_blocks |-> block_list, scroll |-> 0]

LineRange ==
    /\ frame.fn = "metrics"
    /\ frame.pc = "total"
    /\ \E start_line \in LineIndices, end_line \in LineIndices :
          frame' = [frame EXCEPT
                       !.painter = "line_range",
                       !.start_line = start_line,
                       !.end_line = end_line,
                       !.range = line_range(frame.metrics, start_line, end_line),
                       !.pc = "return"]
    /\ UNCHANGED <<compVars, app>>

\* one overlay of highlight_headings
HighlightHeading ==
    /\ frame.fn = "metrics"
    /\ frame.pc = "total"
    /\ \E line \in LineIndices, inner \in PainterAreas :
          frame' = [frame EXCEPT
                       !.painter = "highlight_headings",
                       !.start_line = line,
                       !.end_line = line + 1,
                       !.range = line_overlay_rows(line, frame.content, frame.metrics),
                       !.inner = inner,
                       !.cells = highlight_headings(
                                     Painting(<<[level |-> 1, line |-> line]>>,
                                              <<>>, <<>>),
                                     inner, frame.metrics),
                       !.pc = "return"]
    /\ UNCHANGED <<compVars, app>>

\* one overlay of render_rules
RenderRule ==
    /\ frame.fn = "metrics"
    /\ frame.pc = "total"
    /\ \E line_idx \in LineIndices, inner \in PainterAreas :
          frame' = [frame EXCEPT
                       !.painter = "render_rules",
                       !.start_line = line_idx,
                       !.end_line = line_idx + 1,
                       !.range = line_overlay_rows(line_idx, frame.content,
                                                   frame.metrics),
                       !.inner = inner,
                       !.cells = render_rules(Painting(<<>>, <<line_idx>>, <<>>),
                                              inner, frame.metrics),
                       !.pc = "return"]
    /\ UNCHANGED <<compVars, app>>

\* one overlay of render_code_blocks
RenderCodeBlock ==
    /\ frame.fn = "metrics"
    /\ frame.pc = "total"
    /\ \E first \in LineIndices, last \in LineIndices, inner \in PainterAreas :
          frame' = [frame EXCEPT
                       !.painter = "render_code_blocks",
                       !.start_line = first,
                       !.end_line = last,
                       !.range = block_overlay_rows(
                                     [line_start |-> first, line_end |-> last],
                                     frame.content, frame.metrics),
                       !.inner = inner,
                       !.cells = UNION {f.border \cup f.fill :
                                          f \in render_code_blocks(
                                                    Painting(<<>>, <<>>,
                                                             <<[line_start |-> first,
                                                                line_end |-> last,
                                                                language |-> NoneStr]>>),
                                                    inner, frame.metrics)},
                       !.pc = "return"]
    /\ UNCHANGED <<compVars, app>>

NextMetrics ==
    \/ LineRowSpan
    \/ ComputeLineMetrics
    \/ TotalRows
    \/ LineRange
    \/ HighlightHeading
    \/ RenderRule
    \/ RenderCodeBlock

SpecMetrics == InitMetrics /\ [][NextMetrics]_vars

(***************************************************************************)
(* The viewer's run loop: draw, then a key if one is polled. frame holds   *)
(* the place in the loop, the key handled last with the outcome of its     *)
(* read, and whether handle_key returned Ok(true).                         *)
(***************************************************************************)
StartOf(tag) == Event("Start", tag, <<>>, FALSE)
EndOf(tag) == Event("End", tag, <<>>, FALSE)
TextEvent(t) == Event("Text", NoTag, t, FALSE)

\* the files the path may hold: "", "# a\n\nabc\n", a rule and a fenced code
\* block, and a table of two columns
EmptyFile == <<>>
HeadingFile ==
    <<StartOf(Heading(1)),
      TextEvent(<<"a", "b", "c", "d", "e", "f", "g", "h", "i", "j", "k", "l", "m", "n", "o">>),
      EndOf(Heading(1)),
      StartOf(Paragraph), TextEvent(<<"a", "b", "c">>), EndOf(Paragraph)>>
CodeFile ==
    <<Event("Rule", NoTag, <<>>, FALSE),
      StartOf(CodeBlockFenced(<<"r">>)),
      TextEvent(<<"a", "\n", "b", "\n", "c", "\n">>),
      EndOf(CodeBlockFenced(<<"r">>))>>
TableFile ==
    <<StartOf(Table(<<"None", "None">>)),
      StartOf(TableHead),
      StartOf(TableCell), TextEvent(<<"a", "b", "c", "d", "e", "f">>), EndOf(TableCell),
      StartOf(TableCell), TextEvent(<<"a", "b", "c", "d", "e", "f">>), EndOf(TableCell),
      EndOf(TableHead),
      StartOf(TableRow),
      StartOf(TableCell), TextEvent(<<"a">>), EndOf(TableCell),
      StartOf(TableCell), TextEvent(<<"b">>), EndOf(TableCell),
      EndOf(TableRow),
      EndOf(Table(<<"None", "None">>))>>
Files == {EmptyFile, HeadingFile, CodeFile, TableFile}

\* the sizes of the inner area of the viewer block
InnerWidths == {0, 14, 20}
InnerHeights == {0, 1, 4}
KeyCodes == {"q", "Ctrl-c", "Up", "Down", "PageUp", "PageDown", "Home", "End", "r", "x"}

\* no frame drawn yet
NotDrawn == painted(NoApp, viewer_inner(0, 0), NoMetrics)

\* App::load
InitApp ==
    /\ InitOf({DEFAULT_MAX_TABLE_WIDTH})
    /\ \E f \in Files :
          app = App_new(f,
                        markdown_to_render_with_options(
                            f, [max_table_width |-> DEFAULT_MAX_TABLE_WIDTH]),
                        DEFAULT_MAX_TABLE_WIDTH)
    /\ frame = [fn |-> "run", pc |-> "draw", code |-> "None", read |-> ReadErr,
                quit |-> FALSE, drawn |-> NotDrawn]

\* terminal.draw(|frame| app.draw(frame))
Draw ==
    /\ frame.fn = "run" /\ frame.pc = "draw" /\ ~frame.quit
    /\ \E w \in InnerWidths, h \in InnerHeights :
          \E drawn \in {draw(app, viewer_inner(w, h))} :
             /\ app' = drawn.app
             /\ frame' = [frame EXCEPT !.pc = "poll", !.code = "None",
                                       !.drawn = drawn]
    /\ UNCHANGED compVars

\* event::poll times out, or the event is no key press
NoKey ==
    /\ frame.fn = "run" /\ frame.pc = "poll" /\ ~frame.quit
    /\ frame' = [frame EXCEPT !.pc = "draw", !.code = "None", !.drawn = NotDrawn]
    /\ UNCHANGED <<compVars, app>>

\* handle_key(app, key): a reload reads the file, which fails or gives the
\* text the file holds by then
HandleKey ==
    /\ frame.fn = "run" /\ frame.pc = "poll" /\ ~frame.quit
    /\ \E code \in KeyCodes, read \in {ReadErr} \cup {ReadOk(f) : f \in Files} :
          /\ (code # "r" => read = ReadErr)
          /\ \E handled \in {handle_key(app, code, read)} :
                /\ app' = handled.app
                /\ frame' = [frame EXCEPT !.pc = "draw", !.code = code,
                                          !.read = read, !.quit = handled.quit,
                                          !.drawn = NotDrawn]
    /\ UNCHANGED compVars

NextApp ==
    \/ Draw
    \/ NoKey
    \/ HandleKey

SpecApp == InitApp /\ [][NextApp]_vars

\* the run loop on a file nobody reloads: the keys that scroll, and the keys
\* that do nothing
ScrollCodes == KeyCodes \ {"q", "Ctrl-c", "r"}

ScrollKey ==
    /\ frame.fn = "run" /\ frame.pc = "poll" /\ ~frame.quit
    /\ \E code \in ScrollCodes :
          /\ app' = handle_key(app, code, ReadErr).app
          /\ frame' = [frame EXCEPT !.pc = "draw", !.code = code, !.read = ReadErr,
                                    !.drawn = NotDrawn]
    /\ UNCHANGED compVars

NextDraw ==
    \/ Draw
    \/ ScrollKey

SpecDraw == InitApp /\ [][NextDraw]_vars

(***************************************************************************)
(* The run loop on the App of main.rs. frame holds the place in the loop,  *)
(* the key handled last and the inner size of the frame drawn last.        *)
(***************************************************************************)
\* files without a table, a rule or a code block
MainFiles == {EmptyFile, HeadingFile}
MainInnerWidths == {5, 20}
MainInnerHeights == {0, 1, 3}

InitMain ==
    /\ InitOf({DEFAULT_MAX_TABLE_WIDTH})
    /\ \E f \in MainFiles : app = main_load(f)
    /\ frame = [fn |-> "main.run", pc |-> "draw", code |-> "None", quit |-> FALSE,
                width |-> 0, height |-> 0]

MainDraw ==
    /\ frame.fn = "main.run" /\ frame.pc = "draw" /\ ~frame.quit
    /\ \E w \in MainInnerWidths, h \in MainInnerHeights :
          /\ app' = main_draw(app, h)
          /\ frame' = [frame EXCEPT !.pc = "poll", !.code = "None",
                                    !.width = w, !.height = h]
    /\ UNCHANGED compVars

MainNoKey ==
    /\ frame.fn = "main.run" /\ frame.pc = "poll" /\ ~frame.quit
    /\ frame' = [frame EXCEPT !.pc = "draw", !.code = "None"]
    /\ UNCHANGED <<compVars, app>>

MainHandleKey ==
    /\ frame.fn = "main.run" /\ frame.pc = "poll" /\ ~frame.quit
    /\ \E code \in KeyCodes, read \in {ReadErr} \cup {ReadOk(f) : f \in MainFiles} :
          /\ (code # "r" => read = ReadErr)
          /\ \E handled \in {main_handle_key(app, code, read)} :
                /\ app' = handled.app
                /\ frame' = [frame EXCEPT !.pc = "draw", !.code = code,
                                          !.quit = handled.quit]
    /\ UNCHANGED compVars

NextMain ==
    \/ MainDraw
    \/ MainNoKey
    \/ MainHandleKey

SpecMain == InitMain /\ [][NextMain]_vars

(***************************************************************************)
(* Scrolling a Document of very many rows. The Document enters max_scroll  *)
(* through the widths of its lines only, so a frame holds those widths in  *)
(* place of the lines, with the fields scroll, viewport_width and          *)
(* viewport_height of the App, the number of keys handled, and the two     *)
(* offsets of the draw done last: the one given to the text widget and the *)
(* one the painters take as the first visible row.                         *)
(***************************************************************************)
\* total_rows once the widths of the lines are known
RECURSIVE rows_of(_, _)
rows_of(line_widths, viewport_width) ==
    IF line_widths = <<>>
    THEN 0
    ELSE row_span(Head(line_widths), Max(viewport_width, 1))
         + rows_of(Tail(line_widths), viewport_width)

\* the offset draw gives to Paragraph::scroll: self.scroll as u16
widget_scroll(scroll) == as_u16(scroll)

\* the first visible row of the painters: self.scroll
visible_start_row(scroll) == scroll

\* Documents of one to three lines, short ones and ones that fill the
\* 16-bit row count of a line at the width of the viewport
LongDocuments(width) ==
    UNION {[1..n -> {0, 1, U16_MAX * width}] : n \in 1..3}
ScrollHeights == {1, 4}

InitScroll ==
    /\ InitOf({DEFAULT_MAX_TABLE_WIDTH})
    /\ app = NoApp
    /\ \E c \in 1..MaxViewportWidth :
          \E d \in LongDocuments(c) :
             frame = [fn |-> "scroll", pc |-> "draw", line_widths |-> d,
                      viewport_width |-> c, viewport_height |-> 0, scroll |-> 0,
                      keys |-> 0, widget |-> 0, window |-> 0]

\* draw at the same width and some height: the offsets it hands on
DrawScroll ==
    /\ frame.fn = "scroll" /\ frame.pc = "draw"
    /\ \E h \in ScrollHeights :
          frame' = [frame EXCEPT !.viewport_height = Max(h, 1),
                                 !.widget = widget_scroll(frame.scroll),
                                 !.window = visible_start_row(frame.scroll),
                                 !.pc = "poll"]
    /\ UNCHANGED <<compVars, app>>

\* max_scroll of the frame
FrameMaxScroll ==
    saturating_sub(rows_of(frame.line_widths, frame.viewport_width),
                   frame.viewport_height)

\* a key is handled: the frame after it, its scroll offset being offset
Scrolled(offset) ==
    /\ frame.fn = "scroll" /\ frame.pc = "poll"
    /\ frame.keys < MaxScrollKeys
    /\ frame' = [frame EXCEPT !.scroll = offset, !.keys = @ + 1, !.pc = "draw"]
    /\ UNCHANGED <<compVars, app>>

\* scroll_up(1) and scroll_up(viewport_height - 1)
ScrollUp ==
    \E rows \in {1, saturating_sub(frame.viewport_height, 1)} :
       Scrolled(IF rows = 0 THEN frame.scroll ELSE saturating_sub(frame.scroll, rows))

\* scroll_down(1) and scroll_down(viewport_height - 1)
ScrollDown ==
    \E rows \in {1, saturating_sub(frame.viewport_height, 1)} :
       Scrolled(IF rows = 0
                THEN frame.scroll
                ELSE Min(frame.scroll + rows, FrameMaxScroll))

\* scroll_to(0)
ScrollTo == Scrolled(Min(0, FrameMaxScroll))

\* scroll_to_end
ScrollToEnd == Scrolled(FrameMaxScroll)

NextScroll ==
    \/ DrawScroll
    \/ ScrollUp
    \/ ScrollDown
    \/ ScrollTo
    \/ ScrollToEnd

SpecScroll == InitScroll /\ [][NextScroll]_vars

(***************************************************************************)
(* handle_event on streams no parser gives: any event in any state, a tag  *)
(* ended that was never started, events of a list or of a table outside    *)
(* one.                                                                    *)
(***************************************************************************)
StrayTags ==
    {Paragraph, BlockQuote, Heading(1), ListSome(9), Item,
     CodeBlockFenced(<<" ", "r", " ">>), Table(<<"Left", "Center">>), TableHead,
     TableRow, TableCell, Emphasis, Strong, Strikethrough, Link, Image(<<>>),
     FootnoteDefinition(<<"1">>)}

StrayStep(e) ==
    /\ Running(MaxStrayEvents)
    /\ SetBuf(handle_event(Buf, e))
    /\ ev' = e
    /\ nev' = nev + 1
    /\ UNCHANGED <<open, headings, pc, frame, app>>

StrayStarts == {Event("Start", tag, <<>>, FALSE) : tag \in StrayTags}
StrayEnds == {Event("End", tag, <<>>, FALSE) : tag \in StrayTags}
StrayInlines ==
    {Event("Text", NoTag, <<"a">>, FALSE), Event("Text", NoTag, <<"a", "\n">>, FALSE),
     Event("Code", NoTag, <<"a">>, FALSE),
     Event("Html", NoTag, <<"<", "b", "r", ">">>, FALSE),
     Event("SoftBreak", NoTag, <<>>, FALSE), Event("HardBreak", NoTag, <<>>, FALSE),
     Event("Rule", NoTag, <<>>, FALSE),
     Event("FootnoteReference", NoTag, <<"1">>, FALSE),
     Event("TaskListMarker", NoTag, <<>>, FALSE)}

StrayStart == \E e \in StrayStarts : StrayStep(e)

StrayEnd == \E e \in StrayEnds : StrayStep(e)

StrayInline == \E e \in StrayInlines : StrayStep(e)

NextStray ==
    \/ StrayStart
    \/ StrayEnd
    \/ StrayInline
    \/ Finalize

SpecStray == Init /\ [][NextStray]_vars

TypeOK ==
    /\ pc \in {"events", "done"}
    /\ Len(style_stack) >= 1
    /\ Len(list_stack) <= Len(open)

(***************************************************************************)
(* Properties.                                                             *)
(***************************************************************************)
IsPrefix(s, t) == Len(s) <= Len(t) /\ SubSeq(t, 1, Len(s)) = s

OverlaysInRange ==
    /\ \A i \in 1..Len(heading_overlays) : heading_overlays[i].line < Len(lines)
    /\ \A i \in 1..Len(rule_lines) : rule_lines[i] < Len(lines)
    /\ \A i \in 1..Len(code_blocks) :
          /\ code_blocks[i].line_start < code_blocks[i].line_end
          /\ code_blocks[i].line_end <= Len(lines)

\* C1: in every state of a compile, the final one included, every heading
\* overlay and every rule index is below lines.len() and every code block
\* overlay has line_start < line_end <= lines.len(); and no step removes or
\* changes a line already in the Document (lines are only appended).
C1_OverlaysReferenceLines ==
    /\ []OverlaysInRange
    /\ [][IsPrefix(lines, lines')]_vars

\* a finished compile with an overlay of each of the three kinds
C1_Witness ==
    /\ pc = "done"
    /\ heading_overlays # <<>>
    /\ rule_lines # <<>>
    /\ code_blocks # <<>>

\* C2: in each overlay collection the line indices (line_start for code
\* blocks) never decrease from one entry to the next.
C2_OverlaysInLineOrder ==
    /\ \A i \in 1..(Len(heading_overlays) - 1) :
          heading_overlays[i].line <= heading_overlays[i + 1].line
    /\ \A i \in 1..(Len(rule_lines) - 1) : rule_lines[i] <= rule_lines[i + 1]
    /\ \A i \in 1..(Len(code_blocks) - 1) :
          code_blocks[i].line_start <= code_blocks[i + 1].line_start

\* a finished compile that returns the overlays of two headings, the second
\* further down than the first
C2_Witness ==
    /\ pc = "done"
    /\ Len(heading_overlays) >= 2
    /\ heading_overlays[1].line < heading_overlays[2].line

\* the step handles an event of kind k
Handles(k) == pc' = "events" /\ ev'.k = k
\* the step handles the Start or the End of a tag t
HandlesTag(k, t) == Handles(k) /\ ev'.tag.t = t

\* C3: a heading overlay is recorded only by the End event of a heading, and
\* its line is the line which that End event flushes, the first line the
\* event appends.
C3_HeadingOverlayAtClosingEvent ==
    [][Len(heading_overlays') > Len(heading_overlays)
         => /\ HandlesTag("End", "Heading")
            /\ heading_overlays'[Len(heading_overlays')].line = Len(lines)]_vars

AllHeadingsOneLine == \A i \in 1..Len(headings) : headings[i].content = "text"

\* C4: when every heading block of the stream holds one line of text and all
\* of them are closed, there is exactly one heading overlay per heading block,
\* in stream order, with the level of its heading; the overlay of a heading
\* that is the first event of the stream is at line 0.
C4_OneOverlayPerHeading ==
    (AllHeadingsOneLine /\ ~InHeading)
       => /\ Len(heading_overlays) = Len(headings)
          /\ \A i \in 1..Len(headings) :
                heading_overlays[i].level = headings[i].level
          /\ (headings # <<>> /\ headings[1].first)
                => heading_overlays[1].line = 0

\* a finished compile of two one-line headings of different levels, the first
\* of which opens the stream
C4_Witness ==
    /\ pc = "done"
    /\ AllHeadingsOneLine
    /\ Len(headings) >= 2
    /\ headings[1].first
    /\ headings[1].level # headings[2].level

\* lang is info without its leading and trailing whitespace
IsTrimOf(lang, info) ==
    /\ lang # <<>> => ~is_whitespace(lang[1]) /\ ~is_whitespace(lang[Len(lang)])
    /\ \E i \in 0..Len(info) :
          /\ i + Len(lang) <= Len(info)
          /\ SubSeq(info, i + 1, i + Len(lang)) = lang
          /\ \A p \in 1..i : is_whitespace(info[p])
          /\ \A p \in (i + Len(lang) + 1)..Len(info) : is_whitespace(info[p])

\* C5: the End of a code block appends exactly one overlay, with
\* line_end > line_start, whose language is the fence label without its
\* surrounding whitespace, or none when that is empty or the block is
\* indented; a block without interior text covers exactly one line, which is
\* empty; no other event changes the code block overlays.
C5_OneOverlayPerCodeBlock ==
    [][IF HandlesTag("End", "CodeBlock")
       THEN /\ Len(code_blocks') = Len(code_blocks) + 1
            /\ SubSeq(code_blocks', 1, Len(code_blocks)) = code_blocks
            /\ LET ov == code_blocks'[Len(code_blocks')]
                   kind == Top.tag
               IN /\ ov.line_end > ov.line_start
                  /\ ov.line_end <= Len(lines')
                  /\ IsTrimOf(ov.language.v, IF kind.opt THEN kind.s ELSE <<>>)
                  /\ ov.language.some <=> ov.language.v # <<>>
                  /\ Top.k = 0 => /\ ov.line_end = ov.line_start + 1
                                  /\ lines'[ov.line_end] = <<>>
       ELSE code_blocks' = code_blocks]_vars

\* the overlays of a block with no text and of a fenced block with a label
\* and text have been returned
C5_Witness ==
    /\ pc = "done"
    /\ \E i \in 1..Len(code_blocks) :
          /\ code_blocks[i].language.some
          /\ lines[code_blocks[i].line_start + 1] # <<>>
    /\ \E i \in 1..Len(code_blocks) :
          /\ code_blocks[i].line_end = code_blocks[i].line_start + 1
          /\ lines[code_blocks[i].line_start + 1] = <<>>

\* C6: every span of every line in the range of a code block overlay has the
\* code background colour.
C6_CodeLinesHaveBackground ==
    \A i \in 1..Len(code_blocks) :
       \A l \in (code_blocks[i].line_start + 1)..code_blocks[i].line_end :
          \A j \in 1..Len(lines[l]) : lines[l][j].style.bg = CODE_BLOCK_BG

\* a code block overlay covers a line made of the indent, a quote marker and
\* the text
C6_Witness ==
    \E i \in 1..Len(code_blocks) :
       \E l \in (code_blocks[i].line_start + 1)..code_blocks[i].line_end :
          /\ Len(lines[l]) >= 3
          /\ lines[l][1].content = <<" ", " ", " ", " ">>
          /\ lines[l][2].content[1] = ">"

Range(f) == {f[i] : i \in DOMAIN f}

\* C7: a Rule event appends exactly one rule index and no other event changes
\* the rule indices; the line at a rule index has no spans, and the line
\* after it exists and has no spans.
C7_RuleLineIsEmpty ==
    /\ [](\A i \in 1..Len(rule_lines) :
            /\ rule_lines[i] + 2 <= Len(lines)
            /\ lines[rule_lines[i] + 1] = <<>>
            /\ lines[rule_lines[i] + 2] = <<>>)
    /\ [][IF Handles("Rule")
           THEN /\ Len(rule_lines') = Len(rule_lines) + 1
                /\ SubSeq(rule_lines', 1, Len(rule_lines)) = rule_lines
           ELSE rule_lines' = rule_lines]_vars

\* a finished compile with a rule between two lines of text
C7_Witness ==
    /\ pc = "done"
    /\ \E i \in 1..Len(rule_lines) :
          /\ \E l \in 1..rule_lines[i] : lines[l] # <<>>
          /\ \E l \in (rule_lines[i] + 2)..Len(lines) : lines[l] # <<>>

\* C8: a line appended by a separator step (ensure_block_gap or
\* push_blank_line) follows a line that is not empty or is a rule line.
C8_NoTwoBlankLines ==
    \A i \in gap_lines :
       i >= 1 => (lines[i] # <<>> \/ (i - 1) \in Range(rule_lines))

ListDepth == Cardinality({i \in 1..Len(open) : open[i].tag.t = "List"})

DigitValue(ch) == CHOOSE n \in 0..9 : Digit(n) = ch

RECURSIVE parse_nat(_)
parse_nat(digits) ==
    IF digits = <<>>
    THEN 0
    ELSE 10 * parse_nat(SubSeq(digits, 1, Len(digits) - 1)) + DigitValue(digits[Len(digits)])

\* label is indent spaces, the decimal digits of n, a dot and a space
IsOrderedLabel(label, indent, n) ==
    /\ Len(label) >= indent + 3
    /\ \A p \in 1..indent : label[p] = " "
    /\ label[Len(label) - 1] = "."
    /\ label[Len(label)] = " "
    /\ LET digits == SubSeq(label, indent + 1, Len(label) - 2)
       IN /\ \A p \in 1..Len(digits) : \E d \in 0..9 : Digit(d) = digits[p]
          /\ Len(digits) > 1 => digits[1] # "0"
          /\ parse_nat(digits) = n

\* C9: the Start of the k-th item of an ordered list declared with start s,
\* at any depth, pushes the label of s + k - 1, indented by two spaces per
\* enclosing list; the items of the lists nested in the items do not count.
C9_OrderedItemLabel ==
    [][(HandlesTag("Start", "Item") /\ open # <<>> /\ Top.tag.t = "List" /\ Top.tag.opt)
         => /\ current' # <<>>
            /\ IsOrderedLabel(current'[Len(current')].content,
                              2 * (ListDepth - 1), Top.tag.n + Top.k)]_vars

\* the second item of an ordered list starts after a list nested in its first
\* item, and its label has one more digit than the first
C9_Witness ==
    /\ ev.k = "Start" /\ ev.tag.t = "Item"
    /\ Len(open) = 2
    /\ open[1].tag.opt
    /\ open[1].k = 2
    /\ \E l \in 1..Len(lines) : lines[l] # <<>> /\ lines[l][1].content[1] = " "
    /\ current[Len(current)].content = <<"1", "0", ".", " ">>

\* C10: the Start of an item of an unordered list at depth d (the number of
\* enclosing lists) pushes 2 * d spaces, glyph number d mod 4 of the cycle
\* and a space; the cycle has four different glyphs.
C10_UnorderedItemBullet ==
    /\ [](Len(BULLETS) = 4 /\ Cardinality(Range(BULLETS)) = 4)
    /\ [][(HandlesTag("Start", "Item") /\ open # <<>> /\ Top.tag.t = "List" /\ ~Top.tag.opt)
           => /\ current' # <<>>
              /\ current'[Len(current')].content =
                    repeat(<<" ">>, 2 * (ListDepth - 1))
                    \o <<BULLETS[((ListDepth - 1) % 4) + 1], " ">>]_vars

\* an item of an unordered list starts inside four enclosing lists
C10_Witness ==
    /\ ev.k = "Start" /\ ev.tag.t = "Item"
    /\ ListDepth = 5
    /\ ~open[Len(open) - 1].tag.opt
    /\ current[Len(current)].content[9] = BULLETS[1]

\* the step closes a table of at least one column
ClosesTable == HandlesTag("End", "Table") /\ table.some /\ col_count(table.v) > 0
\* the final column widths of the table the step closes
FinalWidths == column_widths(table.v, col_count(table.v))
\* the indices in lines' of the table lines the step appends: all it appends
\* but the blank line after the table
TableLineIdx == {i \in (Len(lines) + 1)..Len(lines') : lines'[i] # Line_default}
\* the text of a table line, which is one span
TableText(i) == lines'[i][1].content
\* some line of the Document holds the character ch
SomeLineHolds(ch) ==
    \E i \in 1..Len(lines) : \E j \in 1..Len(lines[i]) : contains(lines[i][j].content, ch)

\* C11: every line of a rendered table, the content rows and the borders
\* alike, has the display width sum(final column widths) + 3 * columns + 1,
\* also when the table was clamped and when cells hold double-width glyphs.
C11_TableLinesOneWidth ==
    [][ClosesTable
         => \A i \in TableLineIdx :
               Line_width(lines'[i]) = sum_of(FinalWidths, 1) + 3 * Len(FinalWidths) + 1]_vars

\* a table closed under max_table_width 8, so every column is clamped to 3,
\* with a cell of two double-width glyphs and a cell of text wider than 3
C11_Witness ==
    /\ ev.k = "End" /\ ev.tag.t = "Table"
    /\ options.max_table_width = 8
    /\ SomeLineHolds("U+1F600")
    /\ SomeLineHolds("d")

\* clamp_column_widths has returned
Returned == frame.fn = "clamp_column_widths" /\ frame.pc = "return"
\* 3 * C + 1 of the slice passed to clamp_column_widths
BorderSpace == 3 * Len(frame.natural) + 1
AllMinimum(widths) == \A i \in 1..Len(widths) : widths[i] = MIN_COLUMN_WIDTH

\* C12: once clamp_column_widths has returned for C columns of natural
\* widths >= 3: if 3 * C + 1 + sum(natural) > max_width, then every column is
\* exactly 3 when max_width - (3 * C + 1) <= 3 * C, and otherwise the widths
\* sum to max_width - (3 * C + 1) exactly with every width >= 3; if the
\* natural widths fit, they are unchanged. The result is the one the table
\* layout uses, and the function always returns (its loops terminate).
C12_WidthReduction ==
    /\ [](Returned =>
            /\ frame.widths = clamp_column_widths(frame.natural, frame.max_width)
            /\ IF BorderSpace + sum_of(frame.natural, 1) > frame.max_width
               THEN IF frame.max_width - BorderSpace <= 3 * Len(frame.natural)
                    THEN AllMinimum(frame.widths)
                    ELSE /\ sum_of(frame.widths, 1) = frame.max_width - BorderSpace
                         /\ \A i \in 1..Len(frame.widths) :
                               frame.widths[i] >= MIN_COLUMN_WIDTH
               ELSE frame.widths = frame.natural)
    /\ <>Returned

\* clamp_column_widths has returned widths that the addition loop raised to
\* the budget after the scaling
C12_Witness ==
    /\ Returned
    /\ frame.idx > 0
    /\ BorderSpace + sum_of(frame.natural, 1) > frame.max_width
    /\ sum_of(frame.widths, 1) = frame.max_width - BorderSpace

\* the step is an iteration of the removal loop that finds several columns
\* tied for widest, wider than the minimum
RemovesAtTie ==
    /\ frame.fn = "clamp_column_widths" /\ frame.pc = "remove"
    /\ frame'.total = frame.total - 1
    /\ Cardinality({i \in 1..Len(frame.widths) :
                       /\ frame.widths[i] > MIN_COLUMN_WIDTH
                       /\ \A j \in 1..Len(frame.widths) :
                             frame.widths[j] <= frame.widths[i]}) > 1
\* the columns as wide as the widest
Widest(widths) == {i \in 1..Len(widths) : \A j \in 1..Len(widths) : widths[j] <= widths[i]}

\* C13 as stated: when the removal loop takes a unit and several columns are
\* tied for widest, wider than 3, it takes the unit from the first of them
\* and leaves the other columns alone.
C13_RemovesFromFirstWidest ==
    [][RemovesAtTie
         => \A i \in 1..Len(frame.widths) :
               frame'.widths[i] =
                  IF i = CHOOSE k \in Widest(frame.widths) :
                            \A j \in Widest(frame.widths) : k <= j
                  THEN frame.widths[i] - 1
                  ELSE frame.widths[i]]_vars

\* C13 amended: when the removal loop takes a unit and several columns are
\* tied for widest, wider than 3, it takes the unit from the last of them in
\* column order and leaves the other columns alone.
C13_RemovesFromLastWidest ==
    [][RemovesAtTie
         => \A i \in 1..Len(frame.widths) :
               frame'.widths[i] =
                  IF i = CHOOSE k \in Widest(frame.widths) :
                            \A j \in Widest(frame.widths) : j <= k
                  THEN frame.widths[i] - 1
                  ELSE frame.widths[i]]_vars

\* the removal loop has just taken a unit from the second of two columns
\* that were tied for widest: natural widths 6, 6, 3 under max_width 20 are
\* scaled to 4, 4, 3, one more than the budget of 10
C13_Witness ==
    /\ frame.fn = "clamp_column_widths" /\ frame.pc = "remove"
    /\ frame.natural = <<6, 6, 3>> /\ frame.max_width = 20
    /\ frame.widths = <<4, 3, 3>>

\* the texts of the table lines the step appends, in order: all it appends
\* but the blank line after the table
TableSeq ==
    [k \in 1..(Len(lines') - Len(lines) - 1) |-> lines'[Len(lines) + k][1].content]
\* the table lines between the top and the bottom border
Interior == SubSeq(TableSeq, 2, Len(TableSeq) - 1)
\* the runs of lines between the separators of seq
RECURSIVE Blocks(_)
Blocks(seq) ==
    IF \A i \in 1..Len(seq) : seq[i][1] # "U+251C"
    THEN <<seq>>
    ELSE LET i == CHOOSE j \in 1..Len(seq) :
                     seq[j][1] = "U+251C" /\ \A p \in 1..(j - 1) : seq[p][1] # "U+251C"
         IN <<SubSeq(seq, 1, i - 1)>> \o Blocks(SubSeq(seq, i + 1, Len(seq)))
\* the logical rows of a table in order, the header first
LogicalRows(t) == (IF t.header.some THEN <<t.header.v>> ELSE <<>>) \o t.rows
\* the first character of the first cell of a row, " " if it has none
FirstChar(row) ==
    IF row # <<>> /\ row[1].lines[1] # <<>> THEN row[1].lines[1][1] ELSE " "

\* C14: the lines of a table with a header (or none) and R body rows are
\* one top border, the header's lines and one separator if there is a
\* header, the body rows in order with exactly one separator between two
\* consecutive rows and none after the last, and one bottom border: 2 +
\* (1 if header) + max(R - 1, 0) border lines.
C14_TableBorders ==
    [][ClosesTable
         => LET B == Blocks(Interior)
                rows == LogicalRows(table.v)
                hdr == IF table.v.header.some THEN 1 ELSE 0
                R == Len(table.v.rows)
            IN /\ TableSeq[1][1] = "U+250C"
               /\ TableSeq[Len(TableSeq)][1] = "U+2514"
               /\ Len(B) = hdr + Max(R, 1)
               /\ \A k \in 1..Len(B) :
                     /\ B[k] # <<>> <=> k <= Len(rows)
                     /\ \A l \in 1..Len(B[k]) : B[k][l][1] = "U+2502"
               /\ \A k \in 1..Len(rows) : contains(B[k][1], FirstChar(rows[k]))
               /\ Cardinality({i \in 1..Len(TableSeq) : TableSeq[i][1] # "U+2502"})
                     = 2 + hdr + Max(R - 1, 0)]_vars

\* the number of lines of the Document that start with the glyph ch
LinesStarting(ch) ==
    Cardinality({i \in 1..Len(lines) : lines[i] # <<>> /\ lines[i][1].content[1] = ch})

\* a table of a header and two body rows is closed: it has two separators
C14_Witness ==
    /\ ev.k = "End" /\ ev.tag.t = "Table"
    /\ LinesStarting("U+250C") = 1
    /\ LinesStarting("U+251C") = 2
    /\ LinesStarting("U+2514") = 1

\* the rendered height of the cell of column c of a row, 0 if the row has no
\* such cell
CellHeight(row, c, widths, alignments) ==
    IF c <= Len(row)
    THEN Len(render_cell_lines([some |-> TRUE, v |-> row[c]], widths[c], alignments[c]))
    ELSE 0
\* the alignments of the table the step closes, one per column
FinalAlignments ==
    table.v.alignments
    \o [i \in 1..(col_count(table.v) - Len(table.v.alignments)) |-> "Left"]

\* the block of lines of one logical row is well formed: H lines, one segment
\* per column, blank below the last line of a cell
RowRendered(block, heights, widths) ==
    /\ Len(block) = Max(1, max_of(heights, 1))
    /\ \A l \in 1..Len(block) :
          LET segments == split(block[l], "U+2502")
          IN /\ Len(segments) = Len(widths) + 2
             /\ segments[1] = <<>>
             /\ segments[Len(widths) + 2] = <<>>
             /\ \A c \in 1..Len(widths) :
                   l > heights[c] => segments[c + 1] = repeat(<<" ">>, widths[c] + 2)
RowsRendered(B, rows, widths, alignments) ==
    \A k \in 1..Len(rows) :
       RowRendered(B[k],
                   [c \in 1..Len(widths) |-> CellHeight(rows[k], c, widths, alignments)],
                   widths)

\* C15: a logical row renders as exactly H lines, H the greatest rendered
\* height of its cells over the C = max(alignments, header cells, any row's
\* cells) columns and at least 1; each of the H lines has one segment per
\* column, and below the last line of a shorter cell, or for a missing cell,
\* the segment is blank and as wide as its column.
C15_RowHeight ==
    [][ClosesTable
         => /\ Len(FinalWidths) = col_count(table.v)
            /\ RowsRendered(Blocks(Interior), LogicalRows(table.v), FinalWidths,
                            FinalAlignments)]_vars

\* a table is closed under max_table_width 14 whose row of two cells has
\* two lines: the long word of one cell wraps, the other cell is filled
C15_Witness ==
    /\ ev.k = "End" /\ ev.tag.t = "Table"
    /\ options.max_table_width = 14
    /\ \E i \in 1..(Len(lines) - 1) :
          /\ lines[i] # <<>> /\ lines[i + 1] # <<>>
          /\ Len(lines[i][1].content) = 14
          /\ SubSeq(lines[i][1].content, 1, 8)
                = <<"U+2502", " ", "a", "b", "c", "d", " ", "U+2502">>
          /\ lines[i + 1][1].content = <<"U+2502", " ", "e", "f", " ", " ", " ", "U+2502",
                                          " ", " ", " ", " ", " ", "U+2502">>

\* compute_line_metrics and total_rows have run on the Document of the frame
Measured == frame.fn = "metrics" /\ frame.pc \in {"total", "return"}
\* the least k with k * c >= w
IsCeiling(k, w, c) == k * c >= w /\ (k - 1) * c < w

\* C16: for a Document of n lines and a width >= 1 the offsets table has
\* n + 1 entries, offsets[0] = 0, offsets[i + 1] - offsets[i] is the row span
\* of line i and at least 1, and offsets[n] is the sum of the row spans, the
\* total that bounds the scrolling.
C16_OffsetsTable ==
    Measured /\ frame.width >= 1 =>
       LET offsets == frame.metrics.offsets
           n == Len(frame.content)
       IN /\ Len(offsets) = n + 1
          /\ offsets[1] = 0
          /\ \A i \in 1..n :
                /\ offsets[i + 1] - offsets[i]
                      = line_row_span(frame.content[i], frame.viewport_width)
                /\ offsets[i + 1] - offsets[i] >= 1
          /\ offsets[n + 1] = frame.total

\* the offsets of a Document of three lines, the last of which wraps
C16_Witness ==
    /\ Measured /\ frame.width >= 1
    /\ Len(frame.content) = 3
    /\ frame.metrics.offsets[4] - frame.metrics.offsets[3] = 2
    /\ frame.total = frame.metrics.offsets[4]

\* C17: for a line of display width w and a column width c >= 1 the row span
\* is ceil(w / c), except that a line of width 0 spans 1 row, and it is at
\* most 65535.
C17_RowSpan ==
    (frame.fn = "line_row_span" /\ frame.pc = "return" /\ frame.width >= 1)
       => IF frame.line_width = 0
          THEN frame.rows = 1
          ELSE IF frame.line_width > U16_MAX * frame.width
               THEN frame.rows = U16_MAX
               ELSE IsCeiling(frame.rows, frame.line_width, frame.width)

\* a line of width 4 in a viewport of width 3 spans 2 rows
C17_Witness ==
    /\ frame.fn = "line_row_span" /\ frame.pc = "return"
    /\ frame.line_width = 4 /\ frame.width = 3
    /\ frame.rows = 2

\* a range was asked for
Asked(painter) == frame.fn = "metrics" /\ frame.pc = "return" /\ frame.painter = painter

\* C18: line_range returns (offsets[start], offsets[end]) exactly when
\* start < end <= n and no mapping when an index is out of bounds or
\* start >= end; a painter that is returned no mapping for an overlay skips
\* the overlay, and every entry read lies inside the offsets table.
C18_RangeQuery ==
    LET n == Len(frame.content)
        offsets == frame.metrics.offsets
        InTable == frame.start_line < frame.end_line /\ frame.end_line <= n
        Rows == <<offsets[frame.start_line + 1], offsets[frame.end_line + 1]>>
    IN /\ Asked("line_range")
          => /\ frame.range.some <=> InTable
             /\ frame.range.some => frame.range.v = Rows
       /\ (Asked("highlight_headings") \/ Asked("render_rules"))
          => /\ frame.range.some => InTable /\ frame.range.v = Rows
             /\ ~line_range(frame.metrics, frame.start_line, frame.end_line).some
                   => ~frame.range.some
       /\ Asked("render_code_blocks")
          => /\ frame.range.some
                   => /\ frame.start_line < Min(frame.end_line, n)
                      /\ frame.range.v
                            = <<offsets[frame.start_line + 1],
                                offsets[Min(frame.end_line, n) + 1]>>
             /\ ~line_range(frame.metrics, frame.start_line,
                            Min(frame.end_line, n)).some
                   => ~frame.range.some

\* line_range was asked for a range that ends past the last line and
\* returned no mapping
C18_Witness ==
    /\ Asked("line_range")
    /\ frame.start_line < frame.end_line
    /\ frame.end_line = Len(frame.content) + 1
    /\ ~frame.range.some

\* the step is handle_key for a key r whose read failed, or succeeded
ReloadFails == frame.pc = "poll" /\ frame'.pc = "draw" /\ frame'.code = "r" /\ ~frame'.read.ok
ReloadSucceeds ==
    frame.pc = "poll" /\ frame'.pc = "draw" /\ frame'.code = "r" /\ frame'.read.ok

\* C19: a reload whose read fails leaves source, Document, the three overlay
\* collections, table width and scroll (and every other field but the
\* status) as they were; the key handler turns the error into a status
\* message and does not return Ok(true), so the program does not quit.
C19_FailedReloadKeepsState ==
    [][ReloadFails
         => /\ app' = [app EXCEPT !.status = "Reload failed: {err}"]
            /\ ~frame'.quit]_vars

\* a reload has failed in a viewer that was scrolled down: the scroll
\* position is kept and the status reports the failure
C19_Witness ==
    /\ frame.fn = "run" /\ frame.code = "r" /\ ~frame.read.ok
    /\ app.status = "Reload failed: {err}"
    /\ app.scroll > 0
    /\ ~frame.quit

\* the Document and the three overlay collections are those of one compile
\* of source under table_width
OneCompile ==
    frame.fn = "run" =>
       LET render == markdown_to_render_with_options(
                         app.source, [max_table_width |-> Max(app.table_width, 1)])
       IN /\ app.content = ensure_non_empty(render.lines)
          /\ app.headings = render.headings
          /\ app.code_blocks = render.code_blocks
          /\ app.rules = render.rules

\* C20: after a successful reload the source is the text read, scroll is 0,
\* and in every state the Document and the heading, code block and rule
\* collections are those of one compile of the source: never the Document
\* of the new text with an overlay collection of the old one.
C20_ReloadReplacesTogether ==
    /\ []OneCompile
    /\ [][ReloadSucceeds
           => /\ app'.source = frame'.read.markdown
              /\ app'.scroll = 0
              /\ app'.table_width = app.table_width]_vars

\* a reload has read the file with the rule and the code block into a viewer
\* whose table width a draw had set to 14
C20_Witness ==
    /\ frame.fn = "run" /\ frame.code = "r" /\ frame.read.ok
    /\ app.status = "Reloaded file"
    /\ app.source = CodeFile
    /\ app.table_width = 14
    /\ app.rules # <<>> /\ app.code_blocks # <<>>
    /\ app.scroll = 0

\* a step of the run loop that draws a frame, and the frame drawn
Draws == frame.fn = "run" /\ frame.pc = "draw" /\ frame'.pc = "poll"
Drawn == frame.fn = "run" /\ frame.pc = "poll"

\* the App a holds the Document and the overlays of one compile of its
\* source under the table width
CompiledAt(a, table_width) ==
    LET render == markdown_to_render_with_options(
                      a.source, [max_table_width |-> table_width])
    IN /\ a.table_width = table_width
       /\ a.content = ensure_non_empty(render.lines)
       /\ a.headings = render.headings
       /\ a.code_blocks = render.code_blocks
       /\ a.rules = render.rules

\* offsets is the offsets table of the Document content at the width
OffsetsOf(offsets, content, width) ==
    /\ Len(offsets) = Len(content) + 1
    /\ offsets[1] = 0
    /\ \A i \in 1..Len(content) :
          offsets[i + 1] = offsets[i] + line_row_span(content[i], width)

\* C21: every draw leaves the Document and the overlays compiled from the
\* current source at the current inner width (at least 1), recompiling them
\* when that width is not the one they were compiled with, and the offsets
\* table the painters read is built from that Document at that width: the
\* painters get the Document, the overlays and the offsets of one compile.
C21_DrawRecompilesBeforeOffsets ==
    [][Draws
       => /\ frame'.drawn.app = app'
          /\ app'.source = app.source
          /\ app'.viewport_width = Max(frame'.drawn.inner.width, 1)
          /\ CompiledAt(app', Max(frame'.drawn.inner.width, 1))
          /\ OffsetsOf(frame'.drawn.metrics.offsets, app'.content,
                       Max(frame'.drawn.inner.width, 1))]_vars

\* a frame of the file with the table, loaded at table width 80, drawn at
\* inner width 14: the table is compiled at 14, its header wraps within the
\* columns and each of the seven lines takes one row
C21_Witness ==
    /\ Drawn
    /\ app.source = TableFile
    /\ frame.drawn.inner.width = 14
    /\ app.table_width = 14
    /\ Len(app.content) = 7
    /\ frame.drawn.metrics.offsets = <<0, 1, 2, 3, 4, 5, 6, 7>>

\* the rows of the block of a frame of render_code_blocks, as the painter
\* finds them, and the window the frame was drawn for
BlockRows(d, f) == block_overlay_rows(f.block, d.app.content, d.metrics)
WindowStart(d) == d.app.scroll
WindowEnd(d) == d.app.scroll + d.inner.height
Intersects(d, f) ==
    /\ d.inner.height > 0 /\ d.inner.width > 0
    /\ BlockRows(d, f).some
    /\ BlockRows(d, f).v[1] < WindowEnd(d)
    /\ BlockRows(d, f).v[2] > WindowStart(d)
HasTopEdge(f) == \E c \in f.border : c.symbol = "U+250C"
HasBottomEdge(f) == \E c \in f.border : c.symbol = "U+2514"

\* C22: the frame of a code block that intersects the window has a top edge
\* only if the first row of the block is inside the window and a bottom edge
\* only if the last row of the block is inside the window.
C22_EdgesOnlyAtBlockEnds ==
    Drawn =>
       \A f \in frame.drawn.code_blocks :
          Intersects(frame.drawn, f) =>
             /\ HasTopEdge(f) => BlockRows(frame.drawn, f).v[1] >= WindowStart(frame.drawn)
             /\ HasBottomEdge(f) => BlockRows(frame.drawn, f).v[2] <= WindowEnd(frame.drawn)

\* the rows of the block of the frame f that are inside the window, as rows
\* of the screen
VisibleBlockRows(d, f) ==
    {d.inner.y + (r - WindowStart(d)) :
        r \in Max(BlockRows(d, f).v[1], WindowStart(d))
                 .. (Min(BlockRows(d, f).v[2], WindowEnd(d)) - 1)}
\* the cells of the frame f whose background is the code background
CodeBackground(f) ==
    {<<c.x, c.y>> : c \in {e \in f.border : e.bg = CODE_BLOCK_BG}}
        \cup {<<c.x, c.y>> : c \in {e \in f.fill : e.bg = CODE_BLOCK_BG}}

\* C23: for every scroll offset and window height, every code block whose
\* rows intersect the window gets a frame painted and every visible row of
\* the block has the code background across the inner width.
C23_VisibleBlocksFramed ==
    Drawn =>
       \A f \in frame.drawn.code_blocks :
          Intersects(frame.drawn, f) =>
             /\ f.border # {}
             /\ \A y \in VisibleBlockRows(frame.drawn, f),
                   x \in inner_columns(frame.drawn.inner) :
                   <<x, y>> \in CodeBackground(f)

\* the rows row_start..row_end - 1 of the Document that are inside the
\* window, as rows of the screen
WindowRows(d, row_start, row_end) ==
    {d.inner.y + (r - WindowStart(d)) :
        r \in {q \in row_start .. (row_end - 1) :
                  q >= WindowStart(d) /\ q < WindowEnd(d)}}
\* the cells of the screen inside the inner area
InnerCells(d) ==
    (d.inner.x .. (d.inner.x + d.inner.width - 1))
        \X (d.inner.y .. (d.inner.y + d.inner.height - 1))
\* the cells the painters of the frame d wrote
Written(d) ==
    {<<c.x, c.y>> : c \in d.headings} \cup {<<c.x, c.y>> : c \in d.rules}
        \cup UNION {{<<c.x, c.y>> : c \in f.border} \cup {<<c.x, c.y>> : c \in f.fill} :
                       f \in d.code_blocks}

\* C24: the cells whose background highlight_headings sets are, for each
\* heading of the Document with rows r0..r1 - 1, the rows of the intersection
\* of r0..r1 - 1 with the window scroll..scroll + height - 1, each across the
\* full inner width and in the colour of the heading's level, and no others;
\* and no painter writes a cell outside the inner area.
C24_HeadingBands ==
    Drawn =>
       /\ frame.drawn.headings
             = UNION {{[x |-> x, y |-> y,
                        bg |-> heading_block_bg(app.headings[i].level)] :
                          x \in inner_columns(frame.drawn.inner),
                          y \in WindowRows(
                                   frame.drawn,
                                   frame.drawn.metrics.offsets[app.headings[i].line + 1],
                                   frame.drawn.metrics.offsets[app.headings[i].line + 2])} :
                        i \in 1..Len(app.headings)}
       /\ Written(frame.drawn) \subseteq InnerCells(frame.drawn)

\* the heading of two rows at width 14 in a window of one row: the band is
\* the first row of the heading, the second row is below the window
C24_Witness ==
    /\ Drawn
    /\ app.source = HeadingFile
    /\ frame.drawn.inner = viewer_inner(14, 1)
    /\ app.scroll = 0
    /\ app.headings = <<[level |-> 1, line |-> 0]>>
    /\ frame.drawn.metrics.offsets[2] = 2
    /\ frame.drawn.headings
          = {[x |-> x, y |-> 1, bg |-> "Rgb(48,52,70)"] : x \in 2..15}

\* a painter has gone over its overlay
Painted == frame.fn = "metrics" /\ frame.pc = "return" /\ frame.painter # "line_range"

\* C26: at a width of 0 every line spans 0 rows, every entry of the offsets
\* table is 0, the row range of every overlay is empty and the painter skips
\* the overlay; and a painter given an inner area of height 0 or of width 0
\* writes no cell.
C26_ZeroSizes ==
    /\ frame.fn = "line_row_span" /\ frame.pc = "return" /\ frame.width = 0
          => frame.rows = 0
    /\ Measured /\ frame.width = 0
          => /\ Len(frame.metrics.offsets) = Len(frame.content) + 1
             /\ \A i \in 1..Len(frame.metrics.offsets) : frame.metrics.offsets[i] = 0
    /\ Asked("line_range") /\ frame.width = 0 /\ frame.range.some
          => frame.range.v = <<0, 0>>
    /\ Painted /\ frame.width = 0 => ~frame.range.some /\ frame.cells = {}
    /\ Painted /\ (frame.inner.height = 0 \/ frame.inner.width = 0)
          => frame.cells = {}

\* the rule painter went over a rule on the second of three lines whose
\* offsets were built at width 0, in an inner area of 3 columns and 2 rows:
\* the rows of the rule are empty and nothing is written
C26_Witness ==
    /\ Painted /\ frame.painter = "render_rules"
    /\ frame.width = 0
    /\ frame.inner = viewer_inner(3, 2)
    /\ Len(frame.content) = 3 /\ frame.start_line = 1
    /\ frame.metrics.offsets = <<0, 0, 0, 0>>
    /\ frame.cells = {}

\* the event e ends a tag of kind t; it starts or ends a part of a table
Ends(e, t) == e.k = "End" /\ e.tag.t = t
TablePart(e) ==
    e.k \in {"Start", "End"} /\ e.tag.t \in {"TableHead", "TableRow", "TableCell"}

\* what handle_event makes of the event e, stray or not: b is the buffer
\* after it
Handled(e, b) ==
    /\ Len(b.style_stack) >= 1
    /\ b.blockquote_depth >= 0
    /\ LineWriter_finalize(b).current = <<>>
    /\ Ends(e, "CodeBlock") /\ ~code_block.start_line.some
          => b.code_blocks = code_blocks /\ ~b.code_block.start_line.some
    /\ Ends(e, "List") /\ list_stack = <<>> => b.list_stack = <<>>
    /\ Ends(e, "BlockQuote") /\ blockquote_depth = 0 => b.blockquote_depth = 0
    /\ (Ends(e, "Emphasis") \/ Ends(e, "Link")) /\ Len(style_stack) = 1
          => b.style_stack = style_stack
    /\ e.k = "Start" /\ e.tag.t = "Item" /\ list_stack = <<>>
          => /\ b.list_stack = <<>>
             /\ b.current # <<>>
             /\ b.current[Len(b.current)].content = <<"-", " ">>
    /\ TablePart(e) /\ ~table.some => b = Buf

\* C25: the compiler takes every event in every state it reaches, well
\* nested stream or not: in every such state each event has a successor
\* state, in which the style stack still holds its base style and the quote
\* depth is not below 0; the end of a code block that was not started adds no
\* overlay, the end of a list or of a blockquote that is not open and the end
\* of an emphasis or link with only the base style leave the list stack, the
\* depth and the style stack as they are, an item outside every list gets
\* the bullet "- ", a table head, row or cell outside a table changes nothing,
\* and the compile returns from every such state with no span left pending.
C25_CompilerTotal ==
    /\ Len(style_stack) >= 1
    /\ blockquote_depth >= 0
    /\ pc = "done" => current = <<>>
    /\ pc = "events"
          => \A e \in StrayStarts \cup StrayEnds \cup StrayInlines :
                Handled(e, handle_event(Buf, e))

\* the end of a code block is the first event of the stream: no overlay is
\* added and the base style stays
C25_Witness ==
    /\ pc = "events" /\ nev = 1
    /\ ev = Event("End", CodeBlockFenced(<<" ", "r", " ">>), <<>>, FALSE)
    /\ code_blocks = <<>>
    /\ Len(style_stack) = 1

\* C27: outside a table cell a soft break with no span pending leaves the
\* Document as it is and with spans pending appends one line holding them; a
\* hard break appends one line holding the pending spans, an empty line when
\* none is pending. Either way no span stays pending.
C27_Breaks ==
    [][/\ Handles("SoftBreak") /\ ~table_cell_active(Buf)
          => /\ lines' = IF current = <<>> THEN lines ELSE Append(lines, current)
             /\ current' = <<>>
       /\ Handles("HardBreak") /\ ~table_cell_active(Buf)
          => /\ lines' = Append(lines, current)
             /\ current' = <<>>]_vars

\* a hard break after an image, whose label is a line of its own already:
\* nothing was pending and the break appended an empty line
C27_Witness ==
    /\ pc = "events" /\ ev.k = "HardBreak"
    /\ ~table_cell_active(Buf)
    /\ Len(lines) >= 2
    /\ lines[Len(lines)] = <<>>
    /\ lines[Len(lines) - 1] # <<>>
    /\ current = <<>>

\* the source lines of the text of a code block: one for each newline, one
\* more for text after the last newline, and one for no text at all
SourceLines(text) ==
    IF text = <<>>
    THEN <<<<>>>>
    ELSE IF split(text, "\n")[Len(split(text, "\n"))] = <<>>
         THEN SubSeq(split(text, "\n"), 1, Len(split(text, "\n")) - 1)
         ELSE split(text, "\n")
\* the text of the spans of a line from the span i on
RECURSIVE TextFrom(_, _)
TextFrom(line, i) ==
    IF i > Len(line) THEN <<>> ELSE line[i].content \o TextFrom(line, i + 1)
\* the Document line holds the source line of a code block: no span for an
\* empty line, else the indent, the quote markers if a blockquote is open,
\* and the text
HoldsSourceLine(line, source_line, depth) ==
    IF source_line = <<>>
    THEN line = <<>>
    ELSE /\ Len(line) >= 2
         /\ line[1].content = <<" ", " ", " ", " ">>
         /\ TextFrom(line, IF depth > 0 THEN 3 ELSE 2) = source_line

\* C28: when a code block ends, the lines of the Document from the start of
\* the block on are the source lines of the text of its Text events joined
\* together, in order: one line for each newline, one more if text follows
\* the last newline, one line if there is no text at all, however the text
\* was split into events; an empty source line is a line without spans, any
\* other starts with the indent of four spaces.
C28_CodeBlockLines ==
    [][HandlesTag("End", "CodeBlock")
       => LET source_lines == SourceLines(Top.text)
              start == code_block.start_line.v
          IN /\ code_blocks' # <<>>
             /\ code_blocks'[Len(code_blocks')].line_start = start
             /\ code_blocks'[Len(code_blocks')].line_end = start + Len(source_lines)
             /\ Len(lines') >= start + Len(source_lines)
             /\ \A i \in 1..Len(source_lines) :
                   HoldsSourceLine(lines'[start + i], source_lines[i],
                                   blockquote_depth)]_vars

\* a code block of the text "a\n", "\n", "a" in three events has ended: three
\* lines, the second without spans, the third flushed by the end of the block
C28_Witness ==
    /\ pc = "events" /\ ev.k = "End" /\ ev.tag.t = "CodeBlock"
    /\ code_blocks = <<[line_start |-> 0, line_end |-> 3,
                        language |-> code_blocks[1].language]>>
    /\ Len(lines) >= 3
    /\ lines[2] = <<>>
    /\ Len(lines[1]) = 2 /\ lines[1][2].content = <<"a">>
    /\ Len(lines[3]) = 2 /\ lines[3][2].content = <<"a">>

\* every open blockquote started with no span pending: the pending spans were
\* all pushed at the present quote depth
QuotesStartedClean ==
    \A i \in 1..Len(open) : open[i].tag.t = "BlockQuote" => ~open[i].pending
\* the line begins, after the indent if it is a line of a code block, with
\* the quote marker depth times in one span
BeginsQuoted(line, depth, in_code) ==
    /\ Len(line) >= (IF in_code THEN 2 ELSE 1)
    /\ line[IF in_code THEN 2 ELSE 1].content = repeat(<<">", " ">>, depth)
    /\ in_code => line[1].content = <<" ", " ", " ", " ">>

\* C29: every non-empty line that a step appends to the Document while
\* N >= 1 blockquotes are open (the lines of a table and of a rule aside)
\* begins, after the indent in a code block, with the quote marker N times;
\* the lines of list items inside the blockquote are among them.
C29_QuotedLinesMarked ==
    [][/\ pc' = "events"
       /\ blockquote_depth >= 1
       /\ QuotesStartedClean
       /\ ~(ev'.k = "End" /\ ev'.tag.t = "Table")
       /\ ev'.k # "Rule"
       => \A i \in (Len(lines) + 1)..Len(lines') :
             lines'[i] # <<>>
                => BeginsQuoted(lines'[i], blockquote_depth,
                                is_active(code_block))]_vars

\* the step handles an event of kind k while a table cell is collected
InCell(k) == table_cell_active(Buf) /\ Handles(k)
\* the buffer after the step differs from the buffer before it in the cell
\* accumulator at most
OnlyCellChanged ==
    /\ table'.some
    /\ Buf' = [Buf EXCEPT !.table.v.current_cell = table'.v.current_cell]

\* C30: while a table cell is collected, a Text, Code, Html, SoftBreak,
\* HardBreak, FootnoteReference or TaskListMarker event changes the cell
\* accumulator and nothing else (the Document lines and the pending spans
\* stay as they are), Code adding its text in backticks; the start and the
\* end of an emphasis, strong, strikethrough or link leave the style stack
\* as it is.
C30_CellEventsStayInCell ==
    [][/\ \A k \in {"Text", "Code", "Html", "SoftBreak", "HardBreak",
                    "FootnoteReference", "TaskListMarker"} :
             InCell(k) => OnlyCellChanged /\ lines' = lines /\ current' = current
       /\ InCell("Code")
             => table'.v.current_cell
                   = table.v.current_cell \o <<Backtick>> \o ev'.text \o <<Backtick>>
       /\ (InCell("Start") \/ InCell("End"))
          /\ ev'.tag.t \in {"Emphasis", "Strong", "Strikethrough", "Link"}
             => style_stack' = style_stack]_vars

\* a Code event in a cell just started: the cell holds the code in
\* backticks, the Document has no line and no span is pending
C30_Witness ==
    /\ pc = "events" /\ ev.k = "Code"
    /\ table.some /\ table.v.in_cell
    /\ table.v.current_cell = <<Backtick, "a", Backtick>>
    /\ lines = <<>> /\ current = <<>>

\* the tags whose Start handler pushes a style
StylePushing ==
    {"Heading", "BlockQuote", "CodeBlock", "Emphasis", "Strong", "Strikethrough", "Link"}

\* C31: on a well-nested stream the style in force right after the End event
\* of a heading, blockquote, code block, emphasis, strong, strikethrough or
\* link is the style that was in force right before its Start event, inside
\* a table cell too; the style stack is never empty, and at the end of the
\* stream it is the single default entry.
C31_StyleRestored ==
    /\ [](Len(style_stack) >= 1)
    /\ [](pc = "done" => style_stack = <<Style_default>>)
    /\ [][Handles("End") /\ ev'.tag.t \in StylePushing
          => current_style(Buf') = Top.style]_vars

\* a link inside a heading has ended: the style of the heading text is in
\* force again, above the default entry
C31_Witness ==
    /\ pc = "events" /\ ev.k = "End" /\ ev.tag.t = "Link"
    /\ TopTag = "Heading"
    /\ Len(style_stack) = 2
    /\ current_style(Buf) = heading_text_style(Top.tag.n)
    /\ current_style(Buf) # Style_default

\* the spans of the lines ls from line i on, in order
RECURSIVE SpansOf(_, _)
SpansOf(ls, i) == IF i > Len(ls) THEN <<>> ELSE ls[i] \o SpansOf(ls, i + 1)
\* the spans of the Document lines followed by the pending spans
AllSpans == SpansOf(lines, 1) \o current

\* C32: no pushed span is lost. The spans of the Document lines followed by
\* the pending spans only grow at the end from step to step, so every span
\* pushed stays, once, in push order, and the pending spans become part of
\* one line; a Text or Code event outside a table cell adds its span as the
\* last one; finalization appends the spans still pending as a final line.
C32_NoSpanLost ==
    /\ [][IsPrefix(AllSpans, AllSpans')]_vars
    /\ [][/\ Handles("Text") /\ ~table_cell_active(Buf) /\ ~contains(ev'.text, "\n")
             => /\ AllSpans' # <<>>
                /\ AllSpans'[Len(AllSpans')].content = ev'.text
          /\ Handles("Code") /\ ~table_cell_active(Buf)
             => /\ AllSpans' # <<>>
                /\ AllSpans'[Len(AllSpans')].content
                      = <<Backtick>> \o ev'.text \o <<Backtick>>]_vars
    /\ [][pc = "events" /\ pc' = "done"
          => /\ lines' = IF current = <<>> THEN lines ELSE Append(lines, current)
             /\ current' = <<>>]_vars

\* the stream ended right after the line of an HTML block, which no event
\* flushed: finalization made it the last line of the Document
C32_Witness ==
    /\ pc = "done" /\ ev.k = "Html"
    /\ lines # <<>>
    /\ Len(lines[Len(lines)]) = 1
    /\ lines[Len(lines)][1].content = <<"<", "p", ">", "\n">>

\* C33: after every draw the scroll offset is at most max_scroll() for the
\* viewport height and width that the draw established, whatever scroll
\* keys, resizes, reloads and draws came before; a draw on a taller
\* viewport of the same width brings the offset back into range.
C33_ScrollWithinMaxAfterDraw == Drawn => app.scroll <= max_scroll(app)

\* the spans pending before the step are, after it, a Document line with an
\* index below first
LandedBefore(first) ==
    \E i \in (Len(lines) + 1)..Len(lines') : lines'[i] = current /\ i - 1 < first
\* the step handles a Rule with spans pending, and they land above the rule
RuleAfterPending ==
    Handles("Rule") /\ current # <<>>
       => LandedBefore(rule_lines'[Len(rule_lines')])
\* the same for the first line of a code block that starts
CodeBlockAfterPending ==
    HandlesTag("Start", "CodeBlock") /\ current # <<>>
       => LandedBefore(code_block'.start_line.v)
\* the same for a table that starts: its lines are appended when it ends,
\* after every line the Document has by then
TableAfterPending ==
    HandlesTag("Start", "Table") /\ current # <<>>
       => LandedBefore(Len(lines')) /\ current' = <<>>

\* C34: Document lines follow event order: spans pushed before a Rule, the
\* start of a code block or the start of a table are on a Document line with
\* a smaller index than the rule line, the first line of the block or the
\* first line of the table, also when they were still pending at that event
\* (the text of a tight list item followed by a rule).
C34_LinesFollowEventOrder ==
    [][RuleAfterPending /\ CodeBlockAfterPending /\ TableAfterPending]_vars

\* the Document line with the index i (lines are counted from 0) is empty
EmptyLine(i) == lines[i + 1] = <<>>
\* the line before the block is empty, if there is one
BlankBefore(block) == block.line_start > 0 => EmptyLine(block.line_start - 1)
\* the line after the block is empty, if there is one
BlankAfter(block) == block.line_end < Len(lines) => EmptyLine(block.line_end)

\* C35: for every code block overlay with line_start > 0 the Document line
\* at line_start - 1 is empty, and the line at line_end, when it exists, is
\* empty: a blank line separates a code block from the content around it,
\* also when the block starts in a list item whose marker is pending or
\* ends with a blank source line.
C35_CodeBlockSetApart ==
    \A i \in 1..Len(code_blocks) :
       BlankBefore(code_blocks[i]) /\ BlankAfter(code_blocks[i])

\* the line index is inside the range of the code block overlay
InBlock(line, block) == block.line_start <= line /\ line < block.line_end
\* no heading overlay is on a line of a code block
HeadingsOutsideBlocks ==
    \A h \in 1..Len(heading_overlays), c \in 1..Len(code_blocks) :
       ~InBlock(heading_overlays[h].line, code_blocks[c])
\* no rule is on a line of a code block or on the line of a heading
RulesApart ==
    \A r \in 1..Len(rule_lines) :
       /\ \A c \in 1..Len(code_blocks) : ~InBlock(rule_lines[r], code_blocks[c])
       /\ \A h \in 1..Len(heading_overlays) : rule_lines[r] # heading_overlays[h].line
\* no two code block overlays share a line
BlocksApart ==
    \A c, d \in 1..Len(code_blocks) :
       c < d => \/ code_blocks[c].line_end <= code_blocks[d].line_start
                \/ code_blocks[d].line_end <= code_blocks[c].line_start

\* C36: the three overlay collections reference pairwise disjoint Document
\* lines: no heading overlay line lies in the range [line_start, line_end)
\* of a code block overlay, no rule line lies in such a range or is the line
\* of a heading, and the ranges of the code blocks do not overlap.
C36_OverlaysDisjoint == HeadingsOutsideBlocks /\ RulesApart /\ BlocksApart

\* the step leaves the Document lines and the pending spans as they are
LineBufferKept == lines' = lines /\ current' = current
\* a step that handles an event while a table cell is collected leaves them
CellKeepsLineBuffer ==
    table_cell_active(Buf) /\ pc' = "events" => LineBufferKept
\* a step that handles any event but the End of the table while a table is
\* open leaves them: the lines of the table come at its closing event
TableLinesAtEnd ==
    table.some /\ pc' = "events" /\ ~HandlesTag("End", "Table") => LineBufferKept

\* C37: while a table cell is collected no event of any kind, the start of
\* an image, the start of a footnote definition and the end of a paragraph
\* included, appends a line to the Document or a span to the pending spans;
\* the lines of a table are all appended at its closing event.
C37_CellLeavesLineBuffer == [][CellKeepsLineBuffer /\ TableLinesAtEnd]_vars

\* the row y of the screen shows, in the frame d, a row of a Document line
\* that is not empty
ShowsContent(d, y) ==
    \E i \in 1..Len(d.app.content) :
       /\ d.app.content[i] # <<>>
       /\ d.metrics.offsets[i] <= WindowStart(d) + (y - d.inner.y)
       /\ WindowStart(d) + (y - d.inner.y) < d.metrics.offsets[i + 1]
\* the cells of the border of the frame f that lie on its top or bottom edge
EdgeCells(f) ==
    {c \in f.border : c.y \in {f.area.v.y, f.area.v.y + f.area.v.height - 1}}

\* C38: painting the frame of a code block never replaces the glyphs of a
\* visible row that shows a non-empty Document line: the glyphs of the
\* border are written only on rows of blank lines next to the block, for
\* every scroll offset, a block that starts at the first visible row, at
\* the top of the Document, or continues above or below the window included.
C38_BorderOnBlankRows ==
    Drawn =>
       \A f \in frame.drawn.code_blocks :
          \A c \in f.border : ~ShowsContent(frame.drawn, c.y)

\* the step handles one of the keys on the App of main.rs, after a draw
MainHandles(codes) ==
    /\ frame.fn = "main.run" /\ frame.pc = "poll"
    /\ frame'.pc = "draw" /\ frame'.code \in codes
\* the scroll offset that shows the last row of the Document at the bottom
\* of the window, the lines wrapped at the width of the frame drawn last
LastRowOffset(a) == saturating_sub(total_rows(a.content, frame.width), a.viewport_height)

\* C39: after scroll_to_end, following a draw, the last physical row of the
\* Document is inside the window: scroll + viewport_height >= total rows,
\* the rows counted as wrapped at the current width; scroll_down and
\* scroll_to never move scroll past that offset, and scroll_up never moves
\* it below 0.
C39_ScrollEndShowsLastRow ==
    [][/\ MainHandles({"End"})
          => app'.scroll + app'.viewport_height
                >= total_rows(app'.content, frame.width)
       /\ MainHandles({"Down", "PageDown", "Home"})
          => app'.scroll <= LastRowOffset(app') \/ app'.scroll <= app.scroll
       /\ MainHandles({"Up", "PageUp"})
          => app'.scroll >= 0 /\ app'.scroll <= app.scroll]_vars

\* C40: in every draw the scroll offset handed to the text widget equals
\* the scroll offset the painters of the overlays take as the first visible
\* row, for every scroll value that can be reached, so the overlays and the
\* text never shift against each other.
C40_WidgetAndPaintersAgree ==
    frame.fn = "scroll" /\ frame.pc = "poll" => frame.widget = frame.window
====
